---- MODULE Spec2Model ----
(***************************************************************************)
(* Benchmark worker execution engine of SpectraGram (backend-evaluator).   *)
(*                                                                         *)
(* The model follows one benchmark id through successive invocations of    *)
(* runner.post_onboard_evaluation: the resume-or-create decision, the      *)
(* thread pool of exec_infer.run_parallel running infer_one per task, the  *)
(* single WriterThread of core/persistence.py, the RateLimiter, and the    *)
(* finalisation / exception paths.  The relational store is modelled by    *)
(* its committed rows; the writer's open session holds uncommitted rows.   *)
(*                                                                         *)
(* Granularity.  Each action is a stretch of one thread's code between two *)
(* points where another thread's effect can be seen: a task is cut at the  *)
(* wait for its ids, at the rate limiter and at the provider call; the     *)
(* writer at its loop test, at the queue read (the closures of a batch run *)
(* in one step) and at the commit; run_parallel at each turn of its loop   *)
(* and between leaving the loop and cancelling the pending futures.        *)
(* A store error (OperationalError) may be raised by the idempotency       *)
(* query, by an upsert_entities closure in the writer, by the evaluation   *)
(* and by a status update.                                                 *)
(*                                                                         *)
(* Specifications.  Spec is the run described above; in it the rate        *)
(* limiter appears without time (a grant, or an interrupted sleep).        *)
(* RateLimiterSpec follows RateLimiter.wait on a discrete clock,           *)
(* JobRunnerSpec follows processor/job_runner.handle_job, and RetrySpec    *)
(* follows the providers' _post_with_retries.  Four specifications apply    *)
(* a function to every input of a bounded set: EditSpec (_edit_counts and  *)
(* the corpus WER of a bucket), CiSpec (the two _choose_ci), CapSpec       *)
(* (_cap_tasks) and RtfSpec (the rtf of the latency samples and its        *)
(* aggregates).  Each specification moves its own variables and leaves     *)
(* those of the others at their initial values.                            *)
(***************************************************************************)
EXTENDS Integers, Sequences, FiniteSets, TLC

\* ---------------------------------------------------------------- bounds
NumTasks == 2          \* length of the task list built by build_tasks
NumUtts == 2           \* distinct utterances the dataset loaders can yield
MaxConcurrency == 2    \* largest pool size an inference profile may ask for
MaxInvocations == 2    \* invocations of post_onboard_evaluation for the id
MaxFaults == 1         \* database errors injected over the whole behaviour
NumCallers == 3        \* threads that call RateLimiter.wait
MinIntervalTicks == 3  \* RateLimiter.min_interval (1 / rps) in clock ticks
SliceTicks == 2        \* the 0.05 s sleep slice of RateLimiter.wait in clock ticks
MaxClock == 10         \* the clock is followed up to this tick
MaxJobs == 2           \* jobs handed to handle_job in one behaviour
MaxAttempts == 2       \* largest `attempts` value of a fetched job

\* ------------------------------------------------------ program constants
batch_size == 64       \* persistence.py 23: WriterThread(batch_size=64)
max_retries == 6       \* deepgram.py 15, openai_whisper.py 39
\* durations of _post_with_retries are counted in quarters of a second
base_backoff == 2      \* 0.5 s (deepgram.py 15, openai_whisper.py 40)
max_jitter == 1        \* random.uniform(0, 0.25) is 0 or 0.25 s
max_wait == 40         \* the cap 10.0 s of min(wait, 10.0)

Tasks == 1..NumTasks
Utts == 1..NumUtts
JobRunIds == 1..MaxInvocations
Callers == 1..NumCallers

VARIABLES
    \* committed rows of the store
    jobruns,        \* job_run table: sequence indexed by job_run_id
    utterances,     \* utterance table: set of utterance identities
    predictions,    \* prediction table: rows per (job_run_id, utt_pk)
    latency,        \* latency_sample table: rows per (job_run_id, utt_pk)
    metrics,        \* metric_summary rows per job_run_id
    boots,          \* bootstrap_result rows per job_run_id
    \* the invocation (main thread of post_onboard_evaluation)
    pc, invocations, resume_mode, job_run_id, tasks, cancel, exc, result,
    collected,
    concurrency,    \* inf["concurrency"] of the evaluation policy
    \* the pool: one future per task
    fut, tpc, outcome,
    \* WriterThread
    wq, wstate, sess, ack, stopFlag, werr,
    \* RateLimiter
    limGranted,
    \* environment / history
    faults, calls, observed, lateStart, evalRan, startPreds, cancelInPool,
    subm,           \* closures handed to writer.submit, in submission order
    wlog,           \* closures the writer has run, in execution order
    \* RateLimiter.wait in time (exec_infer.py 5-24)
    clock,          \* time.perf_counter(), in ticks
    last,           \* RateLimiter.last
    lock,           \* holder of RateLimiter.lock, 0 when free
    lpc,            \* position of each caller inside wait()
    remaining,      \* each caller's local `remaining`
    wake,           \* tick at which a caller's time.sleep may return
    grants,         \* history: the values assigned to RateLimiter.last
    waitingAtCancel \* history: callers sleeping in wait() or queued behind the
                    \* holder of the lock when the event was set
    ,
    \* handle_job (processor/job_runner.py 301-351)
    jpc,            \* position inside handle_job
    job,            \* the fetched job descriptor
    updates,        \* update_job calls sent for this job, in order
    handlerCalls,   \* invocations of the job's handler
    handlerOutcome, \* how the handler ended
    ret,            \* first component of handle_job's return value
    handled,        \* jobs handed to handle_job so far
    \* _post_with_retries (providers/deepgram.py, providers/openai_whisper.py)
    provider,       \* which provider's method runs
    attempt,        \* the loop variable
    rpc,            \* "post", "sleep" or "done"
    resp,           \* what the last HTTP attempt yielded
    rresult,        \* "returned" or the exception that left the method
    wait,           \* argument of the last time.sleep
    attemptsMade,   \* history: requests.post calls made
    onlyTransient   \* history: every attempt so far yielded a transient
                    \* status or a timeout / connection error
    ,
    \* the corpus WER of one bucket (evaluations/v1/pipeline.py 25-86, 197-212)
    bucket,         \* the bucket's utterances: normalized, tokenized ref / hyp
    epc,            \* "input", "scored" or "replaced"
    counts,         \* _edit_counts of each utterance: <<S, D, I>>
    wer,            \* wer_point of the bucket, as a fraction
    wer_before,     \* wer_point before a hypothesis word was replaced
    repl,           \* history: the replacement made in a hypothesis
    \* the two _choose_ci (processor/job_runner.py, reports/graphics.py)
    ci_rows,        \* bootstrap_result rows of one job run and bucket, by boot_id
    ci_metric,      \* the metric asked for
    worker_ci,      \* what job_runner._choose_ci returned
    report_ci,      \* what graphics._choose_ci returned
    \* _cap_tasks (worker/runner.py 80-101)
    task_list,      \* the tasks handed to _cap_tasks
    max_per_subset, max_utterances,
    capped,         \* the list _cap_tasks returned
    cap_pc,         \* "entry", "input" or "done"
    requested,      \* the cap per subset asked for: --max-per-subset or the
                    \* job payload's max_per_subset
    cap_entry,      \* history: "cli" (app.main) or "job" (the job handler)
    environ,        \* os.environ["SB_MAX_PER_SUBSET"]
    \* rtf of the latency samples (runner.py 283-299, pipeline.py 275-285)
    rtf_utts,       \* the utterances: elapsed_s and duration_s of each
    lat_rows,       \* the LatencySample rows written so far
    rtf_summary,    \* the rtf aggregates of the evaluation
    rtf_pc          \* "infer" or "evaluated"
    ,
    \* run_forever (processor/job_runner.py 353-394)
    fpc,            \* "poll", "sleep", "stopped" or "crashed"
    attempted,      \* run_forever's local `attempted`, unbound at first
    cycle_log,      \* history: how each poll cycle ended
    \* concurrent invocations of post_onboard_evaluation (runner.py 131-208)
    bench_rows,     \* rows of the benchmark table with the BenchmarkID
    job_runs,       \* the job_run rows of the benchmark: their status
    ipc,            \* position of each invocation
    irun,           \* each invocation's job_run_id
    iseen,          \* each invocation's `b is None` answer of line 187
    started,        \* invocations started so far
    \* EvaluationV1.run and the finalisation (pipeline.py 166-303)
    ev_pc,          \* "query", "buckets", "commit", "finalize", "returned", "raised"
    ev_buckets,     \* the buckets of the job run, in dict order
    ev_done,        \* buckets the loop has been through
    ev_session,     \* rows added to the session, not yet committed
    ev_committed,   \* rows of metric_summary and bootstrap_result
    ev_status,      \* status of the JobRun
    ev_exc          \* the exception that left run()

dbVars == <<jobruns, utterances, predictions, latency, metrics, boots>>
policyVars == <<tasks, concurrency>>
mainVars == <<pc, invocations, resume_mode, job_run_id, policyVars, cancel, exc, result, collected>>
poolVars == <<fut, tpc, outcome>>
writerVars == <<wq, wstate, sess, ack, stopFlag, werr>>
histVars == <<faults, calls, observed, lateStart, evalRan, startPreds, cancelInPool, subm, wlog>>
limiterVars == <<clock, last, lock, lpc, remaining, wake, grants, waitingAtCancel>>
jobVars == <<jpc, job, updates, handlerCalls, handlerOutcome, ret, handled>>
retryVars == <<provider, attempt, rpc, resp, rresult, wait, attemptsMade, onlyTransient>>
editVars == <<bucket, epc, counts, wer, wer_before, repl>>
ciVars == <<ci_rows, ci_metric, worker_ci, report_ci>>
capVars == <<task_list, max_per_subset, max_utterances, capped, cap_pc, requested, cap_entry, environ>>
rtfVars == <<rtf_utts, lat_rows, rtf_summary, rtf_pc>>
pollVars == <<fpc, attempted, cycle_log>>
startVars == <<bench_rows, job_runs, ipc, irun, iseen, started>>
evalVars == <<ev_pc, ev_buckets, ev_done, ev_session, ev_committed, ev_status, ev_exc>>
serviceVars == <<pollVars, startVars, evalVars>>
pureVars == <<editVars, ciVars, capVars, rtfVars, serviceVars>>
auxVars == <<limiterVars, jobVars, retryVars, pureVars>>
vars == <<dbVars, mainVars, poolVars, writerVars, limGranted, histVars, auxVars>>

Pairs == JobRunIds \X Utts
NoRows == [p \in Pairs |-> 0]
NoCount == [j \in JobRunIds |-> 0]
EmptySess == [utts |-> {}, flushed |-> <<>>, pending |-> <<>>]

\* plan.py 10-19: the task list, one utterance per task, repetitions allowed.
\* Utterance identities are interchangeable, so the lists are taken up to
\* renaming: each task's utterance is one seen before or the next new one.
TaskLists ==
    {f \in [Tasks -> Utts] :
        \A t \in Tasks : \A u \in 1..(f[t] - 1) : \E x \in 1..(t - 1) : f[x] = u}

\* ------------------------------------------------------------------ Init
\* exec_infer.py 6-10: a fresh limiter, nobody inside wait()
RateLimiter_init ==
    /\ last = 0
    /\ lock = 0
    /\ lpc = [c \in Callers |-> "idle"]
    /\ remaining = [c \in Callers |-> 0]
    /\ wake = [c \in Callers |-> 0]
    /\ grants = <<>>
    /\ waitingAtCancel = {}

\* no job has been handed to handle_job yet
NoJob == [id |-> 0, job_type |-> "none", attempts |-> [present |-> FALSE, v |-> 0]]

handle_job_init ==
    /\ jpc = "idle"
    /\ job = NoJob
    /\ updates = <<>>
    /\ handlerCalls = 0
    /\ handlerOutcome = "none"
    /\ ret = "none"
    /\ handled = 0

NoResponse == [kind |-> "none", ra |-> [kind |-> "absent", v |-> 0]]

\* _post_with_retries has not been called
post_with_retries_init ==
    /\ attempt = 1
    /\ rpc = "post"
    /\ resp = NoResponse
    /\ rresult = "none"
    /\ wait = 0
    /\ attemptsMade = 0
    /\ onlyTransient = TRUE

\* a fraction num / den
Frac(n, d) == [num |-> n, den |-> d]
NoWer == Frac(0, 1)
NoRepl == [k |-> 0, j |-> 0, w |-> "", matched |-> FALSE, in_ref |-> FALSE]

\* no bucket has been scored
edit_counts_init ==
    /\ epc = "input"
    /\ counts = <<>>
    /\ wer = NoWer
    /\ wer_before = NoWer
    /\ repl = NoRepl

NotChosen == [called |-> FALSE, found |-> FALSE, id |-> 0, ci_low |-> 0, ci_high |-> 0, method |-> ""]

\* no consumer has selected a confidence interval
choose_ci_init ==
    /\ worker_ci = NotChosen
    /\ report_ci = NotChosen

\* an optional integer argument: None, or a number
None == [present |-> FALSE, v |-> 0]
Some(n) == [present |-> TRUE, v |-> n]

\* os.environ without the variable
Unset == [set |-> FALSE, v |-> ""]

\* neither entry point has been called
cap_tasks_init ==
    /\ capped = <<>>
    /\ cap_pc = "entry"
    /\ cap_entry = "none"
    /\ environ = Unset

NoSummary == [written |-> FALSE, used |-> <<>>, rtf_mean |-> Frac(0, 1), rtf_p95 |-> Frac(0, 1)]

\* no latency sample has been written
rtf_init ==
    /\ lat_rows = <<>>
    /\ rtf_summary = NoSummary
    /\ rtf_pc = "infer"

\* the processes that may run post_onboard_evaluation for the benchmark
Procs == {1, 2}

\* run_forever has not polled yet: `attempted` is unbound
run_forever_init ==
    /\ fpc = "poll"
    /\ attempted = None
    /\ cycle_log = <<>>

\* an empty store and no invocation
start_init ==
    /\ bench_rows = 0
    /\ job_runs = <<>>
    /\ ipc = [p \in Procs |-> "idle"]
    /\ irun = [p \in Procs |-> 0]
    /\ iseen = [p \in Procs |-> FALSE]
    /\ started = 0

\* the evaluation has not started; the JobRun is running
eval_init ==
    /\ ev_pc = "query"
    /\ ev_buckets = <<>>
    /\ ev_done = 0
    /\ ev_session = <<>>
    /\ ev_committed = <<>>
    /\ ev_status = "running"
    /\ ev_exc = "none"

ServiceAtRest ==
    /\ run_forever_init
    /\ start_init
    /\ eval_init

\* the pure functions are not being exercised
PureAtRest ==
    /\ ServiceAtRest
    /\ bucket = <<>>
    /\ edit_counts_init
    /\ ci_rows = <<>>
    /\ ci_metric = "wer"
    /\ choose_ci_init
    /\ task_list = <<>>
    /\ max_per_subset = None
    /\ max_utterances = None
    /\ requested = None
    /\ cap_tasks_init
    /\ rtf_utts = <<>>
    /\ rtf_init

InitWorker ==
    /\ jobruns = <<>>
    /\ utterances = {}
    /\ predictions = NoRows
    /\ latency = NoRows
    /\ metrics = NoCount
    /\ boots = NoCount
    /\ pc = "idle"
    /\ invocations = 0
    /\ resume_mode = FALSE
    /\ job_run_id = 0
    /\ tasks \in TaskLists
    /\ concurrency \in 1..MaxConcurrency
    /\ cancel = FALSE
    /\ exc = "none"
    /\ result = "none"
    /\ collected = {}
    /\ fut = [t \in Tasks |-> "pending"]
    /\ tpc = [t \in Tasks |-> "-"]
    /\ outcome = [t \in Tasks |-> "none"]
    /\ wq = <<>>
    /\ wstate = "off"
    /\ sess = EmptySess
    /\ ack = {}
    /\ stopFlag = FALSE
    /\ werr = "none"
    /\ limGranted = FALSE
    /\ faults = 0
    /\ calls = NoRows
    /\ observed = FALSE
    /\ lateStart = {}
    /\ evalRan = FALSE
    /\ startPreds = NoRows
    /\ cancelInPool = FALSE
    /\ subm = <<>>
    /\ wlog = <<>>

Init ==
    /\ InitWorker
    /\ RateLimiter_init
    /\ clock = 0
    /\ handle_job_init
    /\ post_with_retries_init
    /\ provider = "deepgram"
    /\ PureAtRest

\* ------------------------------------------------- resume-or-create (131-208)
LastStatus(runs) == IF Len(runs) = 0 THEN "none" ELSE runs[Len(runs)].status

\* a run left `running` is not recognised as resumable
resume_decision_never_resumes(status) ==
    IF status = "completed" THEN "already_completed" ELSE "new"

\* a completed run is reopened like an interrupted one
resume_decision_reruns_completed(status) ==
    IF status \in {"running", "failed", "completed"} THEN "resume" ELSE "new"

\* runner.py 135-172: what the latest JobRun's status decides
resume_decision(status) ==
    IF status = "completed" THEN "already_completed"
    ELSE IF status \in {"running", "failed"} THEN "resume"
    ELSE "new"

NewJobRun == [status |-> "running", ended |-> FALSE, error_text |-> ""]
Reopened(jr) == [jr EXCEPT !.status = "running", !.ended = FALSE, !.error_text = ""]

ResetInvocation ==
    /\ cancel' = FALSE
    /\ exc' = "none"
    /\ collected' = {}
    /\ fut' = [t \in Tasks |-> "pending"]
    /\ tpc' = [t \in Tasks |-> "-"]
    /\ outcome' = [t \in Tasks |-> "none"]
    /\ wq' = <<>>
    /\ sess' = EmptySess
    /\ ack' = {}
    /\ stopFlag' = FALSE
    /\ werr' = "none"
    /\ limGranted' = FALSE
    /\ observed' = FALSE
    /\ lateStart' = {}
    /\ evalRan' = FALSE
    /\ cancelInPool' = FALSE
    /\ startPreds' = predictions
    /\ subm' = <<>>
    /\ wlog' = <<>>

\* A new invocation for the benchmark id: lines 131-174
Decide ==
    /\ pc \in {"idle", "returned"}
    /\ invocations < MaxInvocations
    /\ invocations' = invocations + 1
    /\ ResetInvocation
    /\ LET mode == resume_decision(LastStatus(jobruns)) IN
        \/ /\ mode = "already_completed"
           /\ pc' = "returned"
           /\ result' = "already_completed"
           /\ job_run_id' = Len(jobruns)
           /\ resume_mode' = FALSE
           /\ wstate' = "off"
           /\ UNCHANGED jobruns
        \/ /\ mode = "resume"
           /\ pc' = "pool"
           /\ result' = "none"
           /\ job_run_id' = Len(jobruns)
           /\ resume_mode' = TRUE
           /\ wstate' = "top"
           /\ jobruns' = [jobruns EXCEPT ![Len(jobruns)] = Reopened(@)]
        \/ /\ mode = "new"
           /\ pc' = "create"
           /\ result' = "none"
           /\ job_run_id' = 0
           /\ resume_mode' = FALSE
           /\ wstate' = "top"
           /\ UNCHANGED jobruns
    /\ UNCHANGED <<utterances, predictions, latency, metrics, boots, policyVars, faults, calls>>
    /\ UNCHANGED auxVars

\* lines 183-208: fresh Benchmark (if missing) and a fresh JobRun
CreateRun ==
    /\ pc = "create"
    /\ jobruns' = Append(jobruns, NewJobRun)
    /\ job_run_id' = Len(jobruns) + 1
    /\ pc' = "pool"
    /\ UNCHANGED <<utterances, predictions, latency, metrics, boots>>
    /\ UNCHANGED <<invocations, resume_mode, policyVars, cancel, exc, result, collected>>
    /\ UNCHANGED <<poolVars, writerVars, limGranted, histVars>>
    /\ UNCHANGED auxVars

Running == {t \in Tasks : fut[t] = "running"}

\* app.py 23-24: the signal handler sets the shared cancel_event
SetCancel ==
    /\ pc \in {"pool", "leaving", "shutdown", "after_pool", "eval"}
    /\ ~cancel
    /\ cancel' = TRUE
    /\ cancelInPool' = (pc \in {"pool", "leaving", "shutdown"} /\ Running # {})
    /\ UNCHANGED <<dbVars, pc, invocations, resume_mode, job_run_id, policyVars, exc, result, collected>>
    /\ UNCHANGED <<poolVars, writerVars, limGranted>>
    /\ UNCHANGED <<faults, calls, observed, lateStart, evalRan, startPreds, subm, wlog>>
    /\ UNCHANGED auxVars

\* ------------------------------------------------ WriterThread (persistence.py)
Upsert(t) == [kind |-> "upsert", t |-> t]     \* closure upsert_entities of task t
Pred(t) == [kind |-> "pred", t |-> t]         \* closure write_pred of task t
StopItem == [kind |-> "None", t |-> 0]        \* the None that stop() enqueues

Range(q) == {q[i] : i \in 1..Len(q)}
Min2(a, b) == IF a < b THEN a ELSE b

\* the tables without their unique indexes
IntegrityError_no_unique_index(flushed, pending) == FALSE

\* models.py ix_pred_unique / ix_lat_unique: flushing the pending Prediction and
\* LatencySample rows of this job run raises IntegrityError
IntegrityError(flushed, pending) ==
    \E i \in 1..Len(pending) :
        \/ predictions[<<job_run_id, pending[i]>>] > 0
        \/ pending[i] \in Range(flushed)
        \/ \E j \in 1..(i - 1) : pending[j] = pending[i]

\* persistence.py 50-53: `for fn in items: fn(s)` over one session.
\* upsert_entities (runner 222-240) flushes when it inserts a new utterance and
\* then publishes the ids; write_pred (274-301) only adds rows to the session.
RECURSIVE run_batch(_, _)
run_batch(items, st) ==
    IF items = <<>> THEN st
    ELSE LET it == Head(items) IN
        IF it.kind = "None" THEN [st EXCEPT !.err = "type"]
        ELSE IF it.kind = "pred"
        THEN run_batch(Tail(items), [st EXCEPT !.pending = Append(@, tasks[it.t]),
                                               !.log = Append(@, it)])
        ELSE IF tasks[it.t] \in (utterances \cup st.utts)
        THEN run_batch(Tail(items), [st EXCEPT !.acks = @ \cup {it.t},
                                               !.log = Append(@, it)])
        ELSE IF IntegrityError(st.flushed, st.pending)
        THEN [st EXCEPT !.err = "integrity", !.log = Append(@, it)]
        ELSE run_batch(Tail(items),
                [st EXCEPT !.utts = @ \cup {tasks[it.t]},
                           !.flushed = @ \o st.pending,
                           !.pending = <<>>,
                           !.acks = @ \cup {it.t},
                           !.log = Append(@, it)])

AddRows(tbl, us) ==
    [p \in Pairs |-> tbl[p] + Cardinality({i \in 1..Len(us) : <<job_run_id, us[i]>> = p})]

\* the batch is taken from the queue newest first
drain_newest_first(q, n) == [i \in 1..n |-> q[n + 1 - i]]

\* persistence.py 42-49: q.get() then q.get_nowait() up to batch_size items,
\* oldest first
drain(q, n) == SubSeq(q, 1, n)

\* persistence.py 40: `while not self._stop.is_set()`
WriterThread_loop_top ==
    /\ wstate = "top"
    /\ wstate' = IF stopFlag THEN "exited" ELSE "get"
    /\ UNCHANGED <<dbVars, mainVars, poolVars, wq, sess, ack, stopFlag, werr, limGranted, histVars>>
    /\ UNCHANGED auxVars

\* persistence.py 41-53: blocking get, opportunistic drain, run the closures.
\* The query of an upsert_entities closure (runner.py 223-228) may raise a
\* store error: the closures before it have run, the batch is rolled back and
\* the exception ends the thread.
WriterThread_loop_get ==
    /\ wstate = "get"
    /\ wq # <<>>
    /\ IF Head(wq).kind = "None"
       THEN /\ wstate' = "exited"
            /\ wq' = Tail(wq)
            /\ UNCHANGED <<sess, ack, werr, wlog, faults>>
       ELSE LET n == Min2(Len(wq), batch_size)
                items == drain(wq, n)
                fresh == [utts |-> {}, flushed |-> <<>>, pending |-> <<>>,
                          acks |-> {}, err |-> "none", log |-> <<>>]
            IN /\ wq' = SubSeq(wq, n + 1, Len(wq))
               /\ \/ LET st == run_batch(items, fresh)
                     IN /\ ack' = ack \cup st.acks
                        /\ wlog' = wlog \o st.log
                        /\ faults' = faults
                        /\ IF st.err # "none"
                           THEN /\ wstate' = "dead"
                                /\ werr' = st.err
                                /\ sess' = EmptySess
                           ELSE /\ wstate' = "commit"
                                /\ werr' = werr
                                /\ sess' = [utts |-> st.utts, flushed |-> st.flushed,
                                            pending |-> st.pending]
                  \/ \E k \in 1..n :
                        LET st == run_batch(SubSeq(items, 1, k - 1), fresh)
                        IN /\ items[k].kind = "upsert"
                           /\ st.err = "none"
                           /\ faults < MaxFaults
                           /\ faults' = faults + 1
                           /\ ack' = ack \cup st.acks
                           /\ wlog' = wlog \o st.log \o <<items[k]>>
                           /\ wstate' = "dead"
                           /\ werr' = "db"
                           /\ sess' = EmptySess
    /\ UNCHANGED <<dbVars, mainVars, poolVars, stopFlag, limGranted>>
    /\ UNCHANGED <<calls, observed, lateStart, evalRan, startPreds, cancelInPool, subm>>
    /\ UNCHANGED auxVars

\* persistence.py 54-57: commit, or roll the whole batch back and re-raise
WriterThread_loop_commit ==
    /\ wstate = "commit"
    /\ IF IntegrityError(sess.flushed, sess.pending)
       THEN /\ wstate' = "dead"
            /\ werr' = "integrity"
            /\ UNCHANGED <<utterances, predictions, latency>>
       ELSE /\ wstate' = "top"
            /\ werr' = werr
            /\ utterances' = utterances \cup sess.utts
            /\ predictions' = AddRows(predictions, sess.flushed \o sess.pending)
            /\ latency' = AddRows(latency, sess.flushed \o sess.pending)
    /\ sess' = EmptySess
    /\ UNCHANGED <<jobruns, metrics, boots, mainVars, poolVars, wq, ack, stopFlag, limGranted, histVars>>
    /\ UNCHANGED auxVars

\* ------------------------------------------------ infer_one (runner.py 214-303)
Pending == {t \in Tasks : fut[t] = "pending"}
IsMin(t, S) == t \in S /\ \A x \in S : t <= x

Finish(t, o) ==
    /\ fut' = [fut EXCEPT ![t] = "finished"]
    /\ tpc' = [tpc EXCEPT ![t] = "-"]
    /\ outcome' = [outcome EXCEPT ![t] = o]

\* infer_one without its first cancellation check
early_out_on_cancel_missing == FALSE

\* runner.py 216: `if cancel_event is not None and cancel_event.is_set()`
early_out_on_cancel == cancel

\* the idempotency check never finds the row
prediction_exists_never(jr, utt_pk) == FALSE

\* runner.py 74-77
prediction_exists(jr, utt_pk) == predictions[<<jr, utt_pk>>] > 0

\* a pool that spawns a worker for every work item
worker_available_unbounded == TRUE

\* exec_infer.py 38: ThreadPoolExecutor(max_workers=concurrency)
worker_available == Cardinality(Running) < concurrency

\* A pool worker takes the next work item (submission order) and runs infer_one
\* up to writer.submit(upsert_entities): lines 214-242
infer_one_start(t) ==
    /\ pc \in {"pool", "leaving"}
    /\ IsMin(t, Pending)
    /\ worker_available
    /\ lateStart' = IF observed THEN lateStart \cup {t} ELSE lateStart
    /\ IF early_out_on_cancel
       THEN /\ Finish(t, "cancelled")
            /\ UNCHANGED <<wq, subm>>
       ELSE /\ fut' = [fut EXCEPT ![t] = "running"]
            /\ tpc' = [tpc EXCEPT ![t] = "wait_ids"]
            /\ wq' = Append(wq, Upsert(t))
            /\ subm' = Append(subm, Upsert(t))
            /\ outcome' = outcome
    /\ UNCHANGED <<dbVars, mainVars, wstate, sess, ack, stopFlag, werr, limGranted>>
    /\ UNCHANGED <<faults, calls, observed, evalRan, startPreds, cancelInPool, wlog>>
    /\ UNCHANGED auxVars

\* lines 243-255: wait for the ids, idempotency check, cancel check
infer_one_wait_ids(t) ==
    /\ tpc[t] = "wait_ids"
    /\ \/ /\ t \in ack
          /\ \/ /\ faults < MaxFaults          \* the query raises (store unavailable)
                /\ faults' = faults + 1
                /\ Finish(t, "exc_db")
             \/ /\ faults' = faults
                /\ IF prediction_exists(job_run_id, tasks[t]) THEN Finish(t, "skipped")
                   ELSE IF cancel THEN Finish(t, "cancelled")
                   ELSE /\ tpc' = [tpc EXCEPT ![t] = "limiter"]
                        /\ UNCHANGED <<fut, outcome>>
       \/ /\ t \notin ack
          /\ cancel
          /\ faults' = faults
          /\ Finish(t, "cancelled")
    /\ UNCHANGED <<dbVars, mainVars, writerVars, limGranted>>
    /\ UNCHANGED <<calls, observed, lateStart, evalRan, startPreds, cancelInPool, subm, wlog>>
    /\ UNCHANGED auxVars

\* exec_infer.py 12-24 and runner.py 258-262.  The first grant never sleeps
\* (last = 0.0); a later one may have to sleep, and a sleeping wait that sees
\* the cancel event raises KeyboardInterrupt.
RateLimiter_wait(t) ==
    /\ tpc[t] = "limiter"
    /\ \/ /\ limGranted' = TRUE
          /\ IF cancel THEN Finish(t, "cancelled")
             ELSE /\ tpc' = [tpc EXCEPT ![t] = "call"]
                  /\ UNCHANGED <<fut, outcome>>
       \/ /\ limGranted
          /\ cancel
          /\ limGranted' = limGranted
          /\ Finish(t, "exc_ki")
    /\ UNCHANGED <<dbVars, mainVars, writerVars, histVars>>
    /\ UNCHANGED auxVars

\* the provider's exception leaves infer_one
on_provider_exception_reraises == "exc_db"

\* runner.py 268-271: `except Exception` returns "error"
on_provider_exception == "error"

\* lines 264-303: the provider call, then writer.submit(write_pred)
provider_transcribe(t) ==
    /\ tpc[t] = "call"
    /\ \/ /\ Finish(t, "ok")
          /\ calls' = [calls EXCEPT ![<<job_run_id, tasks[t]>>] = @ + 1]
          /\ wq' = Append(wq, Pred(t))
          /\ subm' = Append(subm, Pred(t))
       \/ /\ Finish(t, on_provider_exception)
          /\ UNCHANGED <<calls, wq, subm>>
    /\ UNCHANGED <<dbVars, mainVars, wstate, sess, ack, stopFlag, werr, limGranted>>
    /\ UNCHANGED <<faults, observed, lateStart, evalRan, startPreds, cancelInPool, wlog>>
    /\ UNCHANGED auxVars

\* ------------------------------------------------ run_parallel (exec_infer.py)
\* the loop forgets its futures and ends at once
pending_futures_forgotten == {}

\* lines 39, 47: the set `pending` of futures not yet returned by cf.wait
pending_futures == Tasks \ collected

\* lines 47-50: a finished future is collected; result() re-raises
run_parallel_collect(t) ==
    /\ pc = "pool"
    /\ fut[t] = "finished"
    /\ t \notin collected
    /\ IF outcome[t] \in {"exc_db", "exc_ki"}
       THEN /\ exc' = (IF outcome[t] = "exc_db" THEN "db_task" ELSE "ki")
            /\ pc' = "leaving"
            /\ collected' = collected
       ELSE /\ collected' = collected \cup {t}
            /\ UNCHANGED <<pc, exc>>
    /\ UNCHANGED <<dbVars, invocations, resume_mode, job_run_id, policyVars, cancel, result>>
    /\ UNCHANGED <<poolVars, writerVars, limGranted, histVars>>
    /\ UNCHANGED auxVars

\* line 41: `while pending` ends the loop; nothing is left to shut down
run_parallel_done ==
    /\ pc = "pool"
    /\ pending_futures = {}
    /\ pc' = "after_pool"
    /\ UNCHANGED <<dbVars, invocations, resume_mode, job_run_id, policyVars, cancel, exc, result, collected>>
    /\ UNCHANGED <<poolVars, writerVars, limGranted, histVars>>
    /\ UNCHANGED auxVars

\* line 42: the loop sees the cancel event
run_parallel_observe ==
    /\ pc = "pool"
    /\ pending_futures # {}
    /\ cancel
    /\ observed' = TRUE
    /\ pc' = "leaving"
    /\ UNCHANGED <<dbVars, invocations, resume_mode, job_run_id, policyVars, cancel, exc, result, collected>>
    /\ UNCHANGED <<poolVars, writerVars, limGranted>>
    /\ UNCHANGED <<faults, calls, lateStart, evalRan, startPreds, cancelInPool, subm, wlog>>
    /\ UNCHANGED auxVars

\* lines 44-45 and 52: fut.cancel() / shutdown(cancel_futures=True)
run_parallel_cancel_pending ==
    /\ pc = "leaving"
    /\ fut' = [t \in Tasks |-> IF fut[t] = "pending" THEN "cancelled" ELSE fut[t]]
    /\ pc' = "shutdown"
    /\ UNCHANGED <<dbVars, invocations, resume_mode, job_run_id, policyVars, cancel, exc, result, collected>>
    /\ UNCHANGED <<tpc, outcome, writerVars, limGranted, histVars>>
    /\ UNCHANGED auxVars

\* line 52: shutdown waits for the running work items
run_parallel_join ==
    /\ pc = "shutdown"
    /\ Running = {}
    /\ pc' = (IF exc = "ki" THEN "except_ki"
              ELSE IF exc = "db_task" THEN "stop_writer" ELSE "after_pool")
    /\ UNCHANGED <<dbVars, invocations, resume_mode, job_run_id, policyVars, cancel, exc, result, collected>>
    /\ UNCHANGED <<poolVars, writerVars, limGranted, histVars>>
    /\ UNCHANGED auxVars

\* ------------------------------------------------ after the pool (306-367)
\* the status is set and ended_at is left as it was
SetStatus_keeps_ended_at(st) == [jobruns EXCEPT ![job_run_id] = [@ EXCEPT !.status = st]]

\* runner.py 318, 331, 359: jr.status = ...; jr.ended_at = datetime.utcnow()
SetStatus(st) == [jobruns EXCEPT ![job_run_id] = [@ EXCEPT !.status = st, !.ended = TRUE]]

\* a store error in the main thread: the exception leaves the try block
RaiseDb(where) ==
    /\ faults < MaxFaults
    /\ faults' = faults + 1
    /\ exc' = where
    /\ pc' = "stop_writer"

\* lines 314-324: cancelled -> aborted, no evaluation
check_cancelled ==
    /\ pc = "after_pool"
    /\ IF cancel
       THEN \/ /\ jobruns' = SetStatus("aborted")
               /\ result' = "aborted"
               /\ pc' = "stop_writer"
               /\ UNCHANGED <<exc, faults>>
            \/ /\ RaiseDb("db_status")
               /\ UNCHANGED <<jobruns, result>>
       ELSE /\ pc' = "eval"
            /\ UNCHANGED <<jobruns, result, exc, faults>>
    /\ UNCHANGED <<utterances, predictions, latency, metrics, boots>>
    /\ UNCHANGED <<invocations, resume_mode, job_run_id, policyVars, cancel, collected>>
    /\ UNCHANGED <<poolVars, writerVars, limGranted>>
    /\ UNCHANGED <<calls, observed, lateStart, evalRan, startPreds, cancelInPool, subm, wlog>>
    /\ UNCHANGED auxVars

\* pipeline.py 174-184: the bucket of the job run is non-empty
HasBucket(jr) == \E u \in Utts : predictions[<<jr, u>>] > 0 /\ latency[<<jr, u>>] > 0

\* lines 326-328 and pipeline.py 166-303: one MetricSummary / BootstrapResult
\* row set per bucket, committed at the end of run()
eval_pipeline_run ==
    /\ pc = "eval"
    /\ \/ /\ evalRan' = TRUE
          /\ metrics' = [metrics EXCEPT ![job_run_id] = @ + (IF HasBucket(job_run_id) THEN 1 ELSE 0)]
          /\ boots' = [boots EXCEPT ![job_run_id] = @ + (IF HasBucket(job_run_id) THEN 1 ELSE 0)]
          /\ pc' = "finalize"
          /\ UNCHANGED <<exc, faults>>
       \/ /\ RaiseDb("db_eval")
          /\ UNCHANGED <<metrics, boots, evalRan>>
    /\ UNCHANGED <<jobruns, utterances, predictions, latency>>
    /\ UNCHANGED <<invocations, resume_mode, job_run_id, policyVars, cancel, result, collected>>
    /\ UNCHANGED <<poolVars, writerVars, limGranted>>
    /\ UNCHANGED <<calls, observed, lateStart, startPreds, cancelInPool, subm, wlog>>
    /\ UNCHANGED auxVars

\* lines 329-349: status completed
finalize ==
    /\ pc = "finalize"
    /\ \/ /\ jobruns' = SetStatus("completed")
          /\ result' = "completed"
          /\ pc' = "stop_writer"
          /\ UNCHANGED <<exc, faults>>
       \/ /\ RaiseDb("db_status")
          /\ UNCHANGED <<jobruns, result>>
    /\ UNCHANGED <<utterances, predictions, latency, metrics, boots>>
    /\ UNCHANGED <<invocations, resume_mode, job_run_id, policyVars, cancel, collected>>
    /\ UNCHANGED <<poolVars, writerVars, limGranted>>
    /\ UNCHANGED <<calls, observed, lateStart, evalRan, startPreds, cancelInPool, subm, wlog>>
    /\ UNCHANGED auxVars

\* lines 352-365: `except KeyboardInterrupt`
except_KeyboardInterrupt ==
    /\ pc = "except_ki"
    /\ cancel' = TRUE
    /\ \/ /\ jobruns' = SetStatus("aborted")
          /\ result' = "aborted"
          /\ pc' = "stop_writer"
          /\ UNCHANGED <<exc, faults>>
       \/ /\ RaiseDb("db_status")
          /\ UNCHANGED <<jobruns, result>>
    /\ UNCHANGED <<utterances, predictions, latency, metrics, boots>>
    /\ UNCHANGED <<invocations, resume_mode, job_run_id, policyVars, collected>>
    /\ UNCHANGED <<poolVars, writerVars, limGranted>>
    /\ UNCHANGED <<calls, observed, lateStart, evalRan, startPreds, cancelInPool, subm, wlog>>
    /\ UNCHANGED auxVars

\* lines 366-367, persistence.py 31-33: stop() sets _stop and enqueues None
WriterThread_stop ==
    /\ pc = "stop_writer"
    /\ stopFlag' = TRUE
    /\ wq' = Append(wq, StopItem)
    /\ pc' = "join_writer"
    /\ UNCHANGED <<dbVars, invocations, resume_mode, job_run_id, policyVars, cancel, exc, result, collected>>
    /\ UNCHANGED <<poolVars, wstate, sess, ack, werr, limGranted, histVars>>
    /\ UNCHANGED auxVars

\* persistence.py 34: thread.join(), then the function returns or re-raises
WriterThread_join ==
    /\ pc = "join_writer"
    /\ wstate \in {"exited", "dead"}
    /\ pc' = "returned"
    /\ result' = (IF result = "none" THEN "raised" ELSE result)
    /\ UNCHANGED <<dbVars, invocations, resume_mode, job_run_id, policyVars, cancel, exc, collected>>
    /\ UNCHANGED <<poolVars, writerVars, limGranted, histVars>>
    /\ UNCHANGED auxVars

\* ------------------------------------------------------------------ Next
Next ==
    \/ Decide
    \/ CreateRun
    \/ SetCancel
    \/ WriterThread_loop_top
    \/ WriterThread_loop_get
    \/ WriterThread_loop_commit
    \/ \E t \in Tasks : infer_one_start(t)
    \/ \E t \in Tasks : infer_one_wait_ids(t)
    \/ \E t \in Tasks : RateLimiter_wait(t)
    \/ \E t \in Tasks : provider_transcribe(t)
    \/ \E t \in Tasks : run_parallel_collect(t)
    \/ run_parallel_done
    \/ run_parallel_observe
    \/ run_parallel_cancel_pending
    \/ run_parallel_join
    \/ check_cancelled
    \/ eval_pipeline_run
    \/ finalize
    \/ except_KeyboardInterrupt
    \/ WriterThread_stop
    \/ WriterThread_join

Spec == Init /\ [][Next]_vars

\* Every thread of a run that can take a step eventually takes one: the steps
\* of the main thread inside post_onboard_evaluation, of the pool workers and
\* of the writer thread.  A new invocation and the cancel signal come from
\* outside and need never happen.
ThreadStep ==
    \/ CreateRun
    \/ WriterThread_loop_top
    \/ WriterThread_loop_get
    \/ WriterThread_loop_commit
    \/ \E t \in Tasks : infer_one_start(t)
    \/ \E t \in Tasks : infer_one_wait_ids(t)
    \/ \E t \in Tasks : RateLimiter_wait(t)
    \/ \E t \in Tasks : provider_transcribe(t)
    \/ \E t \in Tasks : run_parallel_collect(t)
    \/ run_parallel_done
    \/ run_parallel_observe
    \/ run_parallel_cancel_pending
    \/ run_parallel_join
    \/ check_cancelled
    \/ eval_pipeline_run
    \/ finalize
    \/ except_KeyboardInterrupt
    \/ WriterThread_stop
    \/ WriterThread_join

FairSpec == Spec /\ WF_vars(ThreadStep)

\* ================================================ RateLimiter.wait in time
\* exec_infer.py 5-24, followed on a discrete clock.  Callers are the pool
\* threads of infer_one reaching limiter.wait() (runner.py 258); the cancel
\* event is the one shared with the run.  time.sleep(x) returns no earlier
\* than x after it was called and possibly later.  The test of the event
\* (line 18) and the start of the sleep (line 22) are one step: an event set
\* between them is an event set during that sleep.
workerVarsButCancel ==
    <<dbVars, pc, invocations, resume_mode, job_run_id, policyVars, exc, result,
      collected, poolVars, writerVars, limGranted, histVars>>

\* the worker is not running: its variables keep their initial values
WorkerAtRest ==
    /\ InitWorker
    /\ tasks = [t \in Tasks |-> 1]
    /\ concurrency = 1

RateLimiterInit ==
    /\ WorkerAtRest
    /\ RateLimiter_init
    /\ clock \in 0..MinIntervalTicks
    /\ handle_job_init
    /\ post_with_retries_init
    /\ provider = "deepgram"
    /\ PureAtRest

\* a limiter without its lock
lock_free_always == TRUE

\* line 13: `with self.lock`
lock_free == lock = 0

\* a wait that never looks at the event
cancel_seen_never == FALSE

\* line 18: `self.cancel_event is not None and self.cancel_event.is_set()`
cancel_seen == cancel

\* line 21: sleep_for = 0.05 if remaining > 0.05 else remaining
sleep_for(r) == IF r > SliceTicks THEN SliceTicks ELSE r

\* runner.py 258: a pool thread calls limiter.wait() and queues on the lock
RateLimiter_wait_enter(c) ==
    /\ lpc[c] = "idle"
    /\ lpc' = [lpc EXCEPT ![c] = "queued"]
    /\ UNCHANGED <<clock, last, lock, remaining, wake, grants, waitingAtCancel>>
    /\ UNCHANGED <<workerVarsButCancel, cancel, jobVars, retryVars, pureVars>>

\* lines 13-16: the lock is taken, `remaining` is computed from the clock
RateLimiter_wait_lock(c) ==
    /\ lpc[c] = "queued"
    /\ lock_free
    /\ lock' = c
    /\ remaining' = [remaining EXCEPT ![c] = MinIntervalTicks - (clock - last)]
    /\ lpc' = [lpc EXCEPT ![c] = "loop"]
    /\ UNCHANGED <<clock, last, wake, grants, waitingAtCancel>>
    /\ UNCHANGED <<workerVarsButCancel, cancel, jobVars, retryVars, pureVars>>

\* lines 17-24: one test of the loop: raise KeyboardInterrupt, sleep one
\* slice, or leave the loop, set `last` and return (a grant)
RateLimiter_wait_loop(c) ==
    /\ lpc[c] = "loop"
    /\ IF remaining[c] > 0
       THEN IF cancel_seen
            THEN /\ lpc' = [lpc EXCEPT ![c] = "interrupted"]
                 /\ lock' = 0
                 /\ UNCHANGED <<last, wake, grants>>
            ELSE /\ lpc' = [lpc EXCEPT ![c] = "sleeping"]
                 /\ wake' = [wake EXCEPT ![c] = clock + sleep_for(remaining[c])]
                 /\ UNCHANGED <<last, lock, grants>>
       ELSE /\ last' = clock
            /\ grants' = Append(grants, clock)
            /\ lpc' = [lpc EXCEPT ![c] = "granted"]
            /\ lock' = 0
            /\ wake' = wake
    /\ UNCHANGED <<clock, remaining, waitingAtCancel>>
    /\ UNCHANGED <<workerVarsButCancel, cancel, jobVars, retryVars, pureVars>>

\* lines 22-23: time.sleep returns, `remaining -= sleep_for`
RateLimiter_wait_wake(c) ==
    /\ lpc[c] = "sleeping"
    /\ clock >= wake[c]
    /\ remaining' = [remaining EXCEPT ![c] = @ - sleep_for(@)]
    /\ lpc' = [lpc EXCEPT ![c] = "loop"]
    /\ UNCHANGED <<clock, last, lock, wake, grants, waitingAtCancel>>
    /\ UNCHANGED <<workerVarsButCancel, cancel, jobVars, retryVars, pureVars>>

\* time.perf_counter() advances
clock_tick ==
    /\ clock < MaxClock
    /\ clock' = clock + 1
    /\ UNCHANGED <<last, lock, lpc, remaining, wake, grants, waitingAtCancel>>
    /\ UNCHANGED <<workerVarsButCancel, cancel, jobVars, retryVars, pureVars>>

\* app.py 23-24: the cancel event is set while callers are inside wait()
cancel_event_set ==
    /\ ~cancel
    /\ cancel' = TRUE
    /\ waitingAtCancel' =
        {c \in Callers : lpc[c] = "sleeping" \/ (lpc[c] = "queued" /\ lock # 0)}
    /\ UNCHANGED <<clock, last, lock, lpc, remaining, wake, grants>>
    /\ UNCHANGED <<workerVarsButCancel, jobVars, retryVars, pureVars>>

RateLimiterNext ==
    \/ \E c \in Callers : RateLimiter_wait_enter(c)
    \/ \E c \in Callers : RateLimiter_wait_lock(c)
    \/ \E c \in Callers : RateLimiter_wait_loop(c)
    \/ \E c \in Callers : RateLimiter_wait_wake(c)
    \/ clock_tick
    \/ cancel_event_set

RateLimiterSpec == RateLimiterInit /\ [][RateLimiterNext]_vars

\* ===================================================== handle_job (301-351)
\* processor/job_runner.py.  update_job is an HTTP POST that either returns or
\* raises (requests exception, HTTP error status).  The handler returns its
\* result dict, raises an Exception, or is left by a KeyboardInterrupt /
\* SystemExit, which `except Exception` does not catch.
JobIds == {0, 1}                       \* 0: the descriptor has no id
JobTypes == {"post_onboard_eval", "other"}
JOB_HANDLERS == {"post_onboard_eval"}  \* lines 295-297
AttemptsValues ==                      \* the field is missing / null, or a count
    {[present |-> FALSE, v |-> 0]} \cup {[present |-> TRUE, v |-> n] : n \in 0..MaxAttempts}
HandlerResults == {"completed", "already_completed", "aborted", "benchmark_error"}

\* line 314: int(job.get("attempts") or 0)
attempts_of(j) == IF j.attempts.present THEN j.attempts.v ELSE 0

Update(st, att, payload, err, delivered) ==
    [status |-> st, attempts |-> att, payload |-> payload, last_error |-> err,
     ok |-> delivered]

workerVars == <<workerVarsButCancel, cancel>>

JobRunnerInit ==
    /\ WorkerAtRest
    /\ RateLimiter_init
    /\ clock = 0
    /\ handle_job_init
    /\ post_with_retries_init
    /\ provider = "deepgram"
    /\ PureAtRest

\* run_once 366-370 calls handle_job(job); lines 308-314
handle_job_enter ==
    /\ jpc \in {"idle", "returned"}
    /\ handled < MaxJobs
    /\ handled' = handled + 1
    /\ \E i \in JobIds, ty \in JobTypes, a \in AttemptsValues :
        job' = [id |-> i, job_type |-> ty, attempts |-> a]
    /\ updates' = <<>>
    /\ handlerCalls' = 0
    /\ handlerOutcome' = "none"
    /\ IF job'.id = 0
       THEN jpc' = "returned" /\ ret' = "False"
       ELSE jpc' = "mark_processing" /\ ret' = "none"
    /\ UNCHANGED <<workerVars, limiterVars, retryVars, pureVars>>

\* the handler is invoked although the job could not be marked processing
on_processing_update_failure_ignored == "dispatch"

\* lines 319-321: the except branch returns (False, {...})
on_processing_update_failure == "returned"

\* lines 316-321: update_job(status="processing", attempts=attempts + 1)
handle_job_mark_processing ==
    /\ jpc = "mark_processing"
    /\ \E delivered \in BOOLEAN :
        /\ updates' = Append(updates,
                Update("processing", attempts_of(job) + 1, "none", "none", delivered))
        /\ IF delivered
           THEN jpc' = "dispatch" /\ ret' = ret
           ELSE jpc' = on_processing_update_failure /\ ret' = "False"
    /\ UNCHANGED <<job, handlerCalls, handlerOutcome, handled>>
    /\ UNCHANGED <<workerVars, limiterVars, retryVars, pureVars>>

\* lines 323-331: look the handler up; none registered -> failed
handle_job_dispatch ==
    /\ jpc = "dispatch"
    /\ IF job.job_type \in JOB_HANDLERS
       THEN /\ jpc' = "handler"
            /\ handlerOutcome' = handlerOutcome
       ELSE /\ jpc' = "report_failed"
            /\ handlerOutcome' = "unsupported"
    /\ UNCHANGED <<job, updates, handlerCalls, ret, handled>>
    /\ UNCHANGED <<workerVars, limiterVars, retryVars, pureVars>>

\* line 335: result_payload = handler(job=job)
handle_job_run_handler ==
    /\ jpc = "handler"
    /\ handlerCalls' = handlerCalls + 1
    /\ \/ \E r \in HandlerResults :
            /\ handlerOutcome' = r
            /\ jpc' = "report_done"
       \/ /\ handlerOutcome' = "raised"
          /\ jpc' = "report_failed"
       \/ /\ handlerOutcome' = "interrupted"
          /\ jpc' = "escaped"
    /\ UNCHANGED <<job, updates, ret, handled>>
    /\ UNCHANGED <<workerVars, limiterVars, retryVars, pureVars>>

\* a failed `done` update reaches the outer `except Exception`
on_done_update_failure_reaches_except == "report_failed"

\* lines 337-341: the inner try logs a failed `done` update and returns
on_done_update_failure == "returned"

\* lines 336-341: update_job(status="done", payload=result_payload)
handle_job_report_done ==
    /\ jpc = "report_done"
    /\ \E delivered \in BOOLEAN :
        /\ updates' = Append(updates,
                Update("done", 0, handlerOutcome, "", delivered))
        /\ jpc' = IF delivered THEN "returned" ELSE on_done_update_failure
        /\ ret' = IF jpc' = "returned" THEN "True" ELSE ret
    /\ UNCHANGED <<job, handlerCalls, handlerOutcome, handled>>
    /\ UNCHANGED <<workerVars, limiterVars, retryVars, pureVars>>

\* lines 326-331 and 343-351: update_job(status="failed", last_error=...)
handle_job_report_failed ==
    /\ jpc = "report_failed"
    /\ \E delivered \in BOOLEAN :
        updates' = Append(updates, Update("failed", 0, "none", handlerOutcome, delivered))
    /\ jpc' = "returned"
    /\ ret' = "False"
    /\ UNCHANGED <<job, handlerCalls, handlerOutcome, handled>>
    /\ UNCHANGED <<workerVars, limiterVars, retryVars, pureVars>>

JobRunnerNext ==
    \/ handle_job_enter
    \/ handle_job_mark_processing
    \/ handle_job_dispatch
    \/ handle_job_run_handler
    \/ handle_job_report_done
    \/ handle_job_report_failed

JobRunnerSpec == JobRunnerInit /\ [][JobRunnerNext]_vars

\* ============================================ provider _post_with_retries
\* providers/deepgram.py 14-43 and providers/openai_whisper.py 31-87.  Each
\* turn of the loop is one requests.post; the endpoint answers with any
\* status and any Retry-After header, or the request fails.  time.sleep raises
\* ValueError for a negative or NaN argument.
Providers == {"deepgram", "openai"}
\* a retry set that also holds the client errors
RETRY_STATUS_with_client_errors == {"429", "500", "502", "503", "504", "400", "404"}

RETRY_STATUS == {"429", "500", "502", "503", "504"}      \* line 6 of both
ClientErrors == {"400", "404"}
Failures == {"Timeout", "ConnectionError", "OtherRequestError"}
RetryAfterNumbers == {0 - 1, 0, base_backoff, max_wait + 1}
RetryAfterHeaders ==
    {[kind |-> "absent", v |-> 0], [kind |-> "text", v |-> 0], [kind |-> "nan", v |-> 0]}
        \cup {[kind |-> "number", v |-> n] : n \in RetryAfterNumbers}
Responses ==
    {[kind |-> k, ra |-> [kind |-> "absent", v |-> 0]] : k \in {"200"} \cup ClientErrors \cup Failures}
        \cup {[kind |-> k, ra |-> h] : k \in RETRY_STATUS, h \in RetryAfterHeaders}

IsTransient(r) == r.kind \in RETRY_STATUS \cup {"Timeout", "ConnectionError"}

\* the exception an attempt's outcome stands for
ErrorOf(r) == IF r.kind \in RETRY_STATUS \cup ClientErrors THEN "HTTPError" ELSE r.kind

backoff(n) == base_backoff * (2 ^ (n - 1))
Capped(w) == IF w < max_wait THEN w ELSE max_wait

\* a float handed to time.sleep: a duration, or NaN
Seconds(x) == [nan |-> FALSE, v |-> x]
NaN == [nan |-> TRUE, v |-> 0]

\* deepgram.py 23-30, openai_whisper.py 57-66: the argument handed to
\* time.sleep after a transient status; min(nan, 10.0) is nan
status_sleep_arg(p, r, n, jitter) ==
    IF r.ra.kind = "nan" THEN NaN
    ELSE IF r.ra.kind = "number"
    THEN (IF p = "deepgram" THEN Seconds(Capped(r.ra.v + jitter))
          ELSE Seconds(Capped(r.ra.v)))
    ELSE Seconds(Capped(backoff(n) + jitter))

\* deepgram.py 38-39, openai_whisper.py 83-84
failure_sleep_arg(n, jitter) == Seconds(Capped(backoff(n) + jitter))

\* time.sleep: ValueError for a negative or NaN length
SleepRaises(a) == a.nan \/ a.v < 0

retryFrame == UNCHANGED <<workerVars, limiterVars, jobVars, provider, pureVars>>

Leave(r, how) ==
    /\ rpc' = "done"
    /\ rresult' = how
    /\ UNCHANGED <<attempt, wait>>

Sleep(a) ==
    IF SleepRaises(a)
    THEN /\ rpc' = "done"
         /\ rresult' = "ValueError"
         /\ UNCHANGED <<attempt, wait>>
    ELSE /\ rpc' = "sleep"
         /\ wait' = a.v
         /\ UNCHANGED <<attempt, rresult>>

\* deepgram.py 29, 37; openai_whisper.py 65, 81: `attempt < max_retries`
retries_left(n) == n < max_retries

\* one turn of the loop up to its sleep, return or raise
post_attempt ==
    /\ rpc = "post"
    /\ attemptsMade' = attemptsMade + 1
    /\ \E r \in Responses, jitter \in 0..max_jitter :
        /\ resp' = r
        /\ onlyTransient' = (onlyTransient /\ IsTransient(r))
        /\ IF r.kind = "200" THEN Leave(r, "returned")
           ELSE IF r.kind \in RETRY_STATUS
           THEN (IF retries_left(attempt)
                 THEN Sleep(status_sleep_arg(provider, r, attempt, jitter))
                 ELSE Leave(r, "HTTPError"))
           ELSE IF r.kind \in {"Timeout", "ConnectionError"}
           THEN (IF retries_left(attempt)
                 THEN Sleep(failure_sleep_arg(attempt, jitter))
                 ELSE Leave(r, r.kind))
           ELSE Leave(r, ErrorOf(r))
    /\ retryFrame

\* time.sleep returns; `continue` / next turn of the for loop
sleep_returns ==
    /\ rpc = "sleep"
    /\ attempt' = attempt + 1
    /\ rpc' = "post"
    /\ UNCHANGED <<resp, rresult, wait, attemptsMade, onlyTransient>>
    /\ retryFrame

RetryInit ==
    /\ WorkerAtRest
    /\ RateLimiter_init
    /\ clock = 0
    /\ handle_job_init
    /\ post_with_retries_init
    /\ provider \in Providers
    /\ PureAtRest

RetryNext == post_attempt \/ sleep_returns

RetrySpec == RetryInit /\ [][RetryNext]_vars

\* ===================================================== the pure functions
\* everything but the function under study is at rest
ProgramAtRest ==
    /\ WorkerAtRest
    /\ RateLimiter_init
    /\ clock = 0
    /\ handle_job_init
    /\ post_with_retries_init
    /\ provider = "deepgram"

SeqsUpTo(S, n) == UNION {[1..k -> S] : k \in 0..n}

\* ============================================== _edit_counts and corpus WER
\* evaluations/v1/pipeline.py 25-86 and 197-212.  A bucket is the list of its
\* utterances after norm() and _tokenize() (199-205): two word lists each.
\* "x" is a word that occurs in no reference.
MaxWords == 3
RefWords == {"a", "b", "c"}
Words == RefWords \cup {"x"}
Utt(r, h) == [ref |-> r, hyp |-> h]

\* one entry of the matrices cost and back
Cell(c, b) == [cost |-> c, back |-> b]

\* lines 31-41: row 0 of the matrices (cost[0, j] = j, back[0, j] = 2);
\* column j is kept at index j + 1
first_row(m) == [j \in 1..(m + 1) |-> Cell(j - 1, IF j = 1 THEN 0 ELSE 2)]

\* the fill without its insertion branch
fill_cell_without_insertion(rw, hw, diag, up, left) ==
    IF rw = hw THEN Cell(diag, 0)
    ELSE IF up + 1 < diag + 1 THEN Cell(up + 1, 1) ELSE Cell(diag + 1, 0)

\* the fill taking the deletion when it ties with the substitution
fill_cell_prefers_deletion(rw, hw, diag, up, left) ==
    IF rw = hw THEN Cell(diag, 0)
    ELSE LET sub == diag + 1
             dele == up + 1
             ins == left + 1
             c1 == IF dele <= sub THEN Cell(dele, 1) ELSE Cell(sub, 0)
         IN IF ins < c1.cost THEN Cell(ins, 2) ELSE c1

\* lines 48-65: one entry from its diagonal, upper and left neighbours
fill_cell(rw, hw, diag, up, left) ==
    IF rw = hw THEN Cell(diag, 0)
    ELSE LET sub == diag + 1
             dele == up + 1
             ins == left + 1
             c1 == IF dele < sub THEN Cell(dele, 1) ELSE Cell(sub, 0)
         IN IF ins < c1.cost THEN Cell(ins, 2) ELSE c1

\* lines 46-65: row i, left to right; cur holds the columns filled so far
RECURSIVE fill_row(_, _, _, _)
fill_row(prev, rw, hyp_words, cur) ==
    IF Len(cur) = Len(hyp_words) + 1 THEN cur
    ELSE LET j == Len(cur)
         IN fill_row(prev, rw, hyp_words,
                Append(cur, fill_cell(rw, hyp_words[j], prev[j].cost, prev[j + 1].cost, cur[j].cost)))

\* lines 36-38 and 44-65: the rows 1..n, top to bottom
RECURSIVE fill(_, _, _)
fill(ref_words, hyp_words, rows) ==
    IF Len(rows) = Len(ref_words) + 1 THEN rows
    ELSE LET i == Len(rows)
         IN fill(ref_words, hyp_words,
                Append(rows, fill_row(rows[i], ref_words[i], hyp_words, <<Cell(i, 1)>>)))

matrices(ref_words, hyp_words) == fill(ref_words, hyp_words, <<first_row(Len(hyp_words))>>)

\* lines 68-85: follow back from (n, m) and count
RECURSIVE backtrack(_, _, _, _, _, _)
backtrack(M, ref_words, hyp_words, i, j, sdi) ==
    IF ~(i > 0 \/ j > 0) THEN sdi
    ELSE LET b == M[i + 1][j + 1].back
         IN IF b = 0
            THEN backtrack(M, ref_words, hyp_words,
                    IF i > 0 THEN i - 1 ELSE i, IF j > 0 THEN j - 1 ELSE j,
                    IF i > 0 /\ j > 0 /\ ref_words[i] # hyp_words[j]
                    THEN [sdi EXCEPT ![1] = @ + 1] ELSE sdi)
            ELSE IF b = 1
            THEN backtrack(M, ref_words, hyp_words, i - 1, j, [sdi EXCEPT ![2] = @ + 1])
            ELSE backtrack(M, ref_words, hyp_words, i, j - 1, [sdi EXCEPT ![3] = @ + 1])

\* lines 25-86
edit_counts(ref_words, hyp_words) ==
    backtrack(matrices(ref_words, hyp_words), ref_words, hyp_words,
              Len(ref_words), Len(hyp_words), <<0, 0, 0>>)

\* lines 70-77: the hypothesis positions the backtrack passes as matches
RECURSIVE matched_positions(_, _, _, _, _)
matched_positions(M, ref_words, hyp_words, i, j) ==
    IF ~(i > 0 \/ j > 0) THEN {}
    ELSE LET b == M[i + 1][j + 1].back
         IN IF b = 0
            THEN (IF i > 0 /\ j > 0 /\ ref_words[i] = hyp_words[j] THEN {j} ELSE {})
                    \cup matched_positions(M, ref_words, hyp_words,
                            IF i > 0 THEN i - 1 ELSE i, IF j > 0 THEN j - 1 ELSE j)
            ELSE IF b = 1 THEN matched_positions(M, ref_words, hyp_words, i - 1, j)
            ELSE matched_positions(M, ref_words, hyp_words, i, j - 1)

Max2(a, b) == IF a > b THEN a ELSE b

\* lines 203-207: the sums of S + D + I and of len(rw) over the bucket
RECURSIVE wer_sums(_, _, _)
wer_sums(b, errs, n) ==
    IF b = <<>> THEN <<errs, n>>
    ELSE LET c == edit_counts(Head(b).ref, Head(b).hyp)
         IN wer_sums(Tail(b), errs + c[1] + c[2] + c[3], n + Len(Head(b).ref))

\* the share of the reference words that were not in error
wer_point_word_accuracy(b) ==
    LET t == wer_sums(b, 0, 0) IN Frac(Max2(0, t[2] - t[1]), Max2(1, t[2]))

\* line 208: (S + D + I) / max(1, N)
wer_point(b) == LET t == wer_sums(b, 0, 0) IN Frac(t[1], Max2(1, t[2]))

editFrame == UNCHANGED <<workerVars, limiterVars, jobVars, retryVars, ciVars, capVars, rtfVars, serviceVars>>

\* lines 204-212: the evaluation scores the bucket
edit_counts_bucket ==
    /\ epc = "input"
    /\ counts' = [k \in 1..Len(bucket) |-> edit_counts(bucket[k].ref, bucket[k].hyp)]
    /\ wer' = wer_point(bucket)
    /\ epc' = "scored"
    /\ UNCHANGED <<bucket, wer_before, repl>>
    /\ editFrame

\* the provider's transcript of utterance k differs in its word j, and the
\* evaluation scores the bucket again
hypothesis_word_replaced ==
    /\ epc = "scored"
    /\ \E k \in 1..Len(bucket) : \E j \in 1..Len(bucket[k].hyp), w \in Words :
        LET u == bucket[k]
            b2 == [bucket EXCEPT ![k].hyp[j] = w]
        IN /\ w # u.hyp[j]
           /\ repl' = [k |-> k, j |-> j, w |-> w,
                       matched |-> j \in matched_positions(matrices(u.ref, u.hyp), u.ref,
                                                           u.hyp, Len(u.ref), Len(u.hyp)),
                       in_ref |-> \E i \in 1..Len(u.ref) : u.ref[i] = w]
           /\ bucket' = b2
           /\ counts' = [x \in 1..Len(b2) |-> edit_counts(b2[x].ref, b2[x].hyp)]
           /\ wer' = wer_point(b2)
    /\ wer_before' = wer
    /\ epc' = "replaced"
    /\ editFrame

\* the buckets of at most two utterances with at most MaxWords reference words
\* and MaxWords hypothesis words in all
EditInit ==
    /\ ProgramAtRest
    /\ ServiceAtRest
    /\ \E r \in SeqsUpTo(RefWords, MaxWords), h \in SeqsUpTo(Words, MaxWords) :
        \E i \in 0..Len(r), j \in 0..Len(h) :
            bucket = IF i = Len(r) /\ j = Len(h) THEN <<Utt(r, h)>>
                     ELSE <<Utt(SubSeq(r, 1, i), SubSeq(h, 1, j)),
                            Utt(SubSeq(r, i + 1, Len(r)), SubSeq(h, j + 1, Len(h)))>>
    /\ edit_counts_init
    /\ ci_rows = <<>>
    /\ ci_metric = "wer"
    /\ choose_ci_init
    /\ task_list = <<>>
    /\ max_per_subset = None
    /\ max_utterances = None
    /\ requested = None
    /\ cap_tasks_init
    /\ rtf_utts = <<>>
    /\ rtf_init

EditNext == edit_counts_bucket \/ hypothesis_word_replaced

EditSpec == EditInit /\ [][EditNext]_vars

\* ======================================================= the two _choose_ci
\* processor/job_runner.py 97-120 and jobs/benchmark/reports/graphics.py
\* 150-180.  ci_rows are the bootstrap_result rows of one job run and one
\* (dataset, variant) bucket, which is what both consumers narrow their query
\* to (job_runner.py 173-185, graphics.py 107, 162-166).  Neither query has an
\* ORDER BY: each consumer reads the rows in an order of the store's choosing.
\* ci_low / ci_high are Float columns, so float(best.ci_low) is the value read.
MaxRows == 3
CiMetrics == {"wer", "latency_p50_ms"}
Methods == {"bootstrap_percentile", "orderstat_normal_approx"}
IterationCounts == {0, 500, 1000}
BootstrapRows ==
    {[metric |-> m, method |-> me, iterations |-> it, ci_low |-> lo, ci_high |-> lo + 2] :
        m \in CiMetrics, me \in Methods, it \in IterationCounts, lo \in {1, 2}}

Orders(n) == {p \in [1..n -> 1..n] : \A i, j \in 1..n : p[i] = p[j] => i = j}

\* `.all()`: the rows, in the order the store returns them
query_all(order) ==
    [i \in 1..Len(ci_rows) |->
        [boot_id |-> order[i],
         metric |-> ci_rows[order[i]].metric,
         method |-> ci_rows[order[i]].method,
         iterations |-> ci_rows[order[i]].iterations,
         ci_low |-> ci_rows[order[i]].ci_low,
         ci_high |-> ci_rows[order[i]].ci_high]]

\* list.index(x), or len(list) + 1 where the code catches ValueError
index_or_past_end(list, x) ==
    IF \E i \in 1..Len(list) : list[i] = x
    THEN (CHOOSE i \in 1..Len(list) : list[i] = x /\ \A j \in 1..(i - 1) : list[j] # x) - 1
    ELSE Len(list) + 1

\* Python's order on pairs
tuple_less(a, b) == a[1] < b[1] \/ (a[1] = b[1] /\ a[2] < b[2])

\* min(iterable, key=...): the position of the first item whose key no other
\* item undercuts, given the keys of the items
py_min(keys) ==
    CHOOSE i \in 1..Len(keys) :
        /\ \A j \in 1..Len(keys) : ~tuple_less(keys[j], keys[i])
        /\ \A j \in 1..(i - 1) : tuple_less(keys[i], keys[j])

Chosen(best) ==
    [called |-> TRUE, found |-> TRUE, id |-> best.boot_id,
     ci_low |-> best.ci_low, ci_high |-> best.ci_high, method |-> best.method]
NoneChosen == [NotChosen EXCEPT !.called = TRUE]

\* job_runner.py 97-100
job_runner_METHOD_PRIORITY == <<"bootstrap_percentile", "orderstat_normal_approx">>

\* a score that prefers the fewest iterations
job_runner_score_fewest_iterations(b) ==
    <<index_or_past_end(job_runner_METHOD_PRIORITY, b.method), b.iterations>>

\* job_runner.py 111-117
job_runner_score(b) ==
    <<index_or_past_end(job_runner_METHOD_PRIORITY, b.method), 0 - b.iterations>>

\* job_runner.py 102-120
job_runner_choose_ci(rows, metric) ==
    LET cands == SelectSeq(rows, LAMBDA b : b.metric = metric)
    IN IF cands = <<>> THEN NoneChosen
       ELSE Chosen(cands[py_min([i \in 1..Len(cands) |-> job_runner_score(cands[i])])])

\* graphics.py 150-153
graphics_METHOD_PRIORITY == <<"bootstrap_percentile", "orderstat_normal_approx">>

\* graphics.py 170-177
graphics_score(row) ==
    <<index_or_past_end(graphics_METHOD_PRIORITY, row.method), 0 - row.iterations>>

\* graphics.py 155-180
graphics_choose_ci(ci_df, metric) ==
    IF ci_df = <<>> THEN NoneChosen
    ELSE LET cands == SelectSeq(ci_df, LAMBDA row : row.metric = metric)
         IN IF cands = <<>> THEN NoneChosen
            ELSE Chosen(cands[py_min([i \in 1..Len(cands) |-> graphics_score(cands[i])])])

ciFrame == UNCHANGED <<workerVars, limiterVars, jobVars, retryVars, editVars, capVars, rtfVars, serviceVars>>

\* job_runner.py 173-188: the worker's summary picks the interval of a metric
job_runner_collect_metric_summary ==
    /\ ~worker_ci.called
    /\ \E order \in Orders(Len(ci_rows)) :
        worker_ci' = job_runner_choose_ci(query_all(order), ci_metric)
    /\ UNCHANGED <<ci_rows, ci_metric, report_ci>>
    /\ ciFrame

\* graphics.py 101-118, 182-190: the report picks the interval of a metric
graphics_build_yerr ==
    /\ ~report_ci.called
    /\ \E order \in Orders(Len(ci_rows)) :
        report_ci' = graphics_choose_ci(query_all(order), ci_metric)
    /\ UNCHANGED <<ci_rows, ci_metric, worker_ci>>
    /\ ciFrame

CiInit ==
    /\ ProgramAtRest
    /\ ServiceAtRest
    /\ bucket = <<>>
    /\ edit_counts_init
    /\ ci_rows \in SeqsUpTo(BootstrapRows, MaxRows)
    /\ ci_metric \in CiMetrics
    /\ choose_ci_init
    /\ task_list = <<>>
    /\ max_per_subset = None
    /\ max_utterances = None
    /\ requested = None
    /\ cap_tasks_init
    /\ rtf_utts = <<>>
    /\ rtf_init

CiNext == job_runner_collect_metric_summary \/ graphics_build_yerr

CiSpec == CiInit /\ [][CiNext]_vars

\* ================================================================ _cap_tasks
\* worker/runner.py 80-101.  A task carries dataset_key = (dataset name,
\* subset dict) (plan.py 17-18).  A dict is its set of items: two dicts are
\* equal whatever their insertion order, and tuple(sorted(d.items())) (line 87)
\* is the canonical listing of that set.
MaxTasks == 5
MaxCap == 3
DatasetKeys ==
    {<<"librispeech", {<<"subset", "clean">>}>>,
     <<"librispeech", {<<"subset", "other">>}>>,
     <<"commonvoice", {}>>}
Task(i, key) == [id |-> i, dataset_key |-> key]
TasksOf(keys) == [i \in 1..Len(keys) |-> Task(i, keys[i])]

\* three subsets of five utterances each, as build_tasks lists them
ThreeGroupsOfFive ==
    TasksOf([i \in 1..15 |->
        IF i <= 5 THEN <<"librispeech", {<<"subset", "clean">>}>>
        ELSE IF i <= 10 THEN <<"librispeech", {<<"subset", "other">>}>>
        ELSE <<"commonvoice", {}>>])

OptionalInts == {None} \cup {Some(n) : n \in (0 - 1)..MaxCap}

\* lines 85-88
subset_key(task) == <<task.dataset_key[1], task.dataset_key[2]>>

\* the last k items of a list
slice_last(lst, k) == SubSeq(lst, Len(lst) - Min2(k, Len(lst)) + 1, Len(lst))

\* lst[:k] for k > 0
slice_to(lst, k) == SubSeq(lst, 1, Min2(k, Len(lst)))

\* lines 83, 90-91: the keys of `grouped`, in insertion order
grouped_keys(task_seq) ==
    LET firsts == SelectSeq([i \in 1..Len(task_seq) |-> i],
                    LAMBDA i : \A j \in 1..(i - 1) : subset_key(task_seq[j]) # subset_key(task_seq[i]))
    IN [n \in 1..Len(firsts) |-> subset_key(task_seq[firsts[n]])]

\* lines 90-91: grouped[key]
grouped(task_seq, key) == SelectSeq(task_seq, LAMBDA t : subset_key(t) = key)

\* lines 93-95
RECURSIVE trimmed(_, _, _)
trimmed(task_seq, keys, k) ==
    IF keys = <<>> THEN <<>>
    ELSE slice_to(grouped(task_seq, Head(keys)), k) \o trimmed(task_seq, Tail(keys), k)

\* `if n and n > 0` for an Optional[int]
is_positive(n) == n.present /\ n.v # 0 /\ n.v > 0

\* lines 80-101
cap_tasks(task_seq, mu, mps) ==
    LET t1 == IF is_positive(mps) THEN trimmed(task_seq, grouped_keys(task_seq), mps.v) ELSE task_seq
    IN IF is_positive(mu) THEN slice_to(t1, mu.v) ELSE t1

capFrame == UNCHANGED <<workerVars, limiterVars, jobVars, retryVars, editVars, ciVars, rtfVars, serviceVars>>

\* str(n) for the small integers of the model
str(n) ==
    LET digits == <<"0", "1", "2", "3", "4", "5", "6", "7", "8", "9">>
    IN IF n < 0 THEN "-" \o digits[1 - n] ELSE digits[n + 1]

\* post_onboard.py 64: post_onboard_evaluation(cfg_json, db_url=db_url); the
\* run's max_per_subset keeps its default (runner.py 112)
run_benchmark_from_dict(mps) == None

\* app.py 34-41: the command line hands --max-utt and --max-per-subset to
\* post_onboard_evaluation
app_main ==
    /\ cap_pc = "entry"
    /\ cap_entry' = "cli"
    /\ max_per_subset' = requested
    /\ max_utterances' \in OptionalInts
    /\ cap_pc' = "input"
    /\ UNCHANGED <<task_list, capped, requested, environ>>
    /\ capFrame

\* job_runner.py 254-264 and post_onboard.py 44-64: the handler reads
\* payload["max_per_subset"], run_benchmark_from_dict writes it to the
\* environment and starts the run
job_runner_post_onboard_evaluation ==
    /\ cap_pc = "entry"
    /\ cap_entry' = "job"
    /\ environ' = IF requested.present THEN [set |-> TRUE, v |-> str(requested.v)] ELSE environ
    /\ max_per_subset' = run_benchmark_from_dict(requested)
    /\ max_utterances' = None
    /\ cap_pc' = "input"
    /\ UNCHANGED <<task_list, capped, requested>>
    /\ capFrame

\* runner.py 181
cap_tasks_call ==
    /\ cap_pc = "input"
    /\ capped' = cap_tasks(task_list, max_utterances, max_per_subset)
    /\ cap_pc' = "done"
    /\ UNCHANGED <<task_list, max_per_subset, max_utterances, requested, cap_entry, environ>>
    /\ capFrame

CapInit ==
    /\ ProgramAtRest
    /\ ServiceAtRest
    /\ bucket = <<>>
    /\ edit_counts_init
    /\ ci_rows = <<>>
    /\ ci_metric = "wer"
    /\ choose_ci_init
    /\ task_list \in {TasksOf(keys) : keys \in SeqsUpTo(DatasetKeys, MaxTasks)} \cup {ThreeGroupsOfFive}
    /\ max_per_subset = None
    /\ max_utterances = None
    /\ requested \in OptionalInts
    /\ cap_tasks_init
    /\ rtf_utts = <<>>
    /\ rtf_init

CapNext == app_main \/ job_runner_post_onboard_evaluation \/ cap_tasks_call

CapSpec == CapInit /\ [][CapNext]_vars

\* ============================================= rtf of the latency samples
\* worker/runner.py 283-299 (write_pred) and evaluations/v1/pipeline.py 190-194,
\* 275-285.  An utterance has the elapsed time of its provider call, in
\* seconds, and the duration_s its dataset loader parsed: None, NaN or a
\* number (datasets/librispeech.py 41-42).  Floats are kept as fractions.
MaxSamples == 3
ElapsedSeconds == {1, 2}
Durations ==
    {[kind |-> "None", v |-> 0], [kind |-> "nan", v |-> 0]}
        \cup {[kind |-> "number", v |-> d] : d \in {0 - 1, 0, 1, 2}}
RtfUtterances == [elapsed_s : ElapsedSeconds, duration_s : Durations]

\* Python truthiness of an Optional[float]: None and 0.0 are false, NaN is true
truthy(d) == d.kind = "nan" \/ (d.kind = "number" /\ d.v # 0)
\* `d > 0`, false for NaN
positive(d) == d.kind = "number" /\ d.v > 0

\* runner.py 284-299: the LatencySample of one utterance
latency_sample(u) ==
    IF truthy(u.duration_s) /\ positive(u.duration_s)
    THEN [total_time_ms |-> u.elapsed_s * 1000,
          rtf |-> [null |-> FALSE, val |-> Frac(u.elapsed_s, u.duration_s.v)],
          meta_json |-> {}]
    ELSE [total_time_ms |-> u.elapsed_s * 1000,
          rtf |-> [null |-> FALSE, val |-> Frac(0, 1)],
          meta_json |-> {"rtf_missing_duration"}]

\* pipeline.py 194: the entry of dur_s, NaN for a missing or non-positive one
dur_s(d) ==
    IF d.kind # "None" /\ positive(d) THEN [nan |-> FALSE, v |-> d.v] ELSE [nan |-> TRUE, v |-> 0]

\* a mask that keeps every sample
rtf_mask_keeps_all(d) == TRUE

\* pipeline.py 277: np.isfinite(dur) & (dur > 0)
rtf_mask(d) == ~d.nan /\ d.v > 0

FracLess(p, q) == p.num * q.den < q.num * p.den
RECURSIVE GCD(_, _)
GCD(a, b) == IF b = 0 THEN a ELSE GCD(b, a % b)
\* a fraction of non-negative terms in lowest terms
Reduced(f) == LET g == GCD(f.num, f.den) IN IF g = 0 THEN f ELSE Frac(f.num \div g, f.den \div g)
FracAdd(p, q) == Reduced(Frac(p.num * q.den + q.num * p.den, p.den * q.den))

RECURSIVE FracSum(_)
FracSum(fs) == IF fs = <<>> THEN Frac(0, 1) ELSE FracAdd(Head(fs), FracSum(Tail(fs)))

\* np.mean
np_mean(fs) == LET t == FracSum(fs) IN Reduced(Frac(t.num, t.den * Len(fs)))

\* np.quantile(fs, 0.95), linear interpolation between the order statistics
np_quantile_95(fs) ==
    LET sorted == SortSeq(fs, FracLess)
        h == (Len(fs) - 1) * 95
        lo == (h \div 100) + 1
        g == h % 100
        hi == IF lo < Len(fs) THEN lo + 1 ELSE lo
    IN FracAdd(Reduced(Frac((100 - g) * sorted[lo].num, 100 * sorted[lo].den)),
               Reduced(Frac(g * sorted[hi].num, 100 * sorted[hi].den)))

rtfFrame == UNCHANGED <<workerVars, limiterVars, jobVars, retryVars, editVars, ciVars, capVars, serviceVars>>

\* runner.py 274-302: the writer runs write_pred of the next utterance
write_pred ==
    /\ rtf_pc = "infer"
    /\ Len(lat_rows) < Len(rtf_utts)
    /\ lat_rows' = Append(lat_rows, latency_sample(rtf_utts[Len(lat_rows) + 1]))
    /\ UNCHANGED <<rtf_utts, rtf_summary, rtf_pc>>
    /\ rtfFrame

\* pipeline.py 190-194 and 275-285: the rtf aggregates of the bucket
eval_rtf ==
    /\ rtf_pc = "infer"
    /\ Len(lat_rows) = Len(rtf_utts)
    /\ LET dur == [i \in 1..Len(rtf_utts) |-> dur_s(rtf_utts[i].duration_s)]
           kept == SelectSeq([i \in 1..Len(rtf_utts) |-> i], LAMBDA i : rtf_mask(dur[i]))
           rtf == [n \in 1..Len(kept) |->
                      Reduced(Frac(lat_rows[kept[n]].total_time_ms, 1000 * dur[kept[n]].v))]
       IN rtf_summary' =
            IF kept = <<>> THEN NoSummary
            ELSE [written |-> TRUE, used |-> kept,
                  rtf_mean |-> np_mean(rtf), rtf_p95 |-> np_quantile_95(rtf)]
    /\ rtf_pc' = "evaluated"
    /\ UNCHANGED <<rtf_utts, lat_rows>>
    /\ rtfFrame

RtfInit ==
    /\ ProgramAtRest
    /\ ServiceAtRest
    /\ bucket = <<>>
    /\ edit_counts_init
    /\ ci_rows = <<>>
    /\ ci_metric = "wer"
    /\ choose_ci_init
    /\ task_list = <<>>
    /\ max_per_subset = None
    /\ max_utterances = None
    /\ requested = None
    /\ cap_tasks_init
    /\ rtf_utts \in SeqsUpTo(RtfUtterances, MaxSamples)
    /\ rtf_init

RtfNext == write_pred \/ eval_rtf

RtfSpec == RtfInit /\ [][RtfNext]_vars

\* ================================================= run_forever (353-394)
\* processor/job_runner.py.  A poll answers with a list of jobs or fails.  The
\* list comes from the queue service as JSON: an element is a job of a
\* supported type, a job of another type, or not an object at all, and then
\* job.get (line 367) raises AttributeError out of run_once.  handle_job of a
\* well-formed job returns (JobRunnerSpec).  A KeyboardInterrupt may arrive
\* during run_once or during the idle sleep.
MaxCycles == 3
MaxPolled == 2
JobKinds == {"supported", "unsupported", "malformed"}
Fetches ==
    {[ok |-> FALSE, jobs |-> <<>>]} \cup {[ok |-> TRUE, jobs |-> js] : js \in SeqsUpTo(JobKinds, MaxPolled)}

\* lines 365-372: the loop over the jobs; n is `attempted`
RECURSIVE run_once_loop(_, _)
run_once_loop(jobs, n) ==
    IF jobs = <<>> THEN [raised |-> FALSE, attempted |-> n]
    ELSE IF Head(jobs) = "malformed" THEN [raised |-> TRUE, attempted |-> n]
    ELSE IF Head(jobs) = "unsupported" THEN run_once_loop(Tail(jobs), n)
    ELSE run_once_loop(Tail(jobs), n + 1)

\* lines 353-372: a failed fetch and an empty list return 0
run_once(fetch) ==
    IF ~fetch.ok \/ fetch.jobs = <<>> THEN [raised |-> FALSE, attempted |-> 0]
    ELSE run_once_loop(fetch.jobs, 0)

Cycle(how, n, sleeps) == [outcome |-> how, handled |-> n, slept |-> sleeps]

pollFrame ==
    UNCHANGED <<workerVars, limiterVars, jobVars, retryVars, editVars, ciVars, capVars, rtfVars,
                startVars, evalVars>>

\* lines 384-394: one turn of `while True` up to the sleep.  `except Exception`
\* leaves `attempted` as it was; reading it while unbound raises
\* UnboundLocalError outside the try.
run_forever_cycle ==
    /\ fpc = "poll"
    /\ Len(cycle_log) < MaxCycles
    /\ \/ /\ fpc' = "stopped"                          \* KeyboardInterrupt: break
          /\ attempted' = attempted
          /\ cycle_log' = Append(cycle_log, Cycle("interrupted", 0, FALSE))
       \/ \E fetch \in Fetches :
            LET r == run_once(fetch)
                att == IF r.raised THEN attempted ELSE Some(r.attempted)
                nxt == IF ~att.present THEN "crashed"
                       ELSE IF att.v = 0 THEN "sleep" ELSE "poll"
            IN /\ attempted' = att
               /\ fpc' = nxt
               /\ cycle_log' = Append(cycle_log,
                        Cycle(IF r.raised THEN "raised" ELSE "returned", r.attempted, nxt = "sleep"))
    /\ pollFrame

\* line 394: time.sleep(idle) returns, or is left by a KeyboardInterrupt
run_forever_idle_sleep ==
    /\ fpc = "sleep"
    /\ fpc' \in {"poll", "stopped"}
    /\ UNCHANGED <<attempted, cycle_log>>
    /\ pollFrame

RunForeverInit ==
    /\ ProgramAtRest
    /\ PureAtRest

RunForeverNext == run_forever_cycle \/ run_forever_idle_sleep

RunForeverSpec == RunForeverInit /\ [][RunForeverNext]_vars

\* ------------------------------------------------------------------------
\* post_onboard_evaluation invoked more than once for one BenchmarkID
\* (runner.py 131-208, 309-367).  Each invocation opens its own sessions;
\* the store is shared.  A session's reads and its commit are separate steps.

MaxStarts == 3

JobRun(st) == [status |-> st]

startFrame ==
    UNCHANGED <<workerVars, limiterVars, jobVars, retryVars, editVars, ciVars, capVars, rtfVars,
                pollVars, evalVars>>

\* lines 133-171: the decision, in one session.  completed -> return;
\* running or failed -> bring the last run back to running and resume it;
\* otherwise a fresh run is created below.
start_decide(p) ==
    /\ ipc[p] = "idle"
    /\ started < MaxStarts
    /\ started' = started + 1
    /\ LET last_status == IF bench_rows = 0 THEN "none" ELSE LastStatus(job_runs)
       IN  IF last_status = "completed"
           THEN UNCHANGED <<bench_rows, job_runs, ipc, irun, iseen>>
           ELSE IF last_status \in {"running", "failed"}
           THEN /\ job_runs' = [job_runs EXCEPT ![Len(job_runs)] = JobRun("running")]
                /\ irun' = [irun EXCEPT ![p] = Len(job_runs)]
                /\ ipc' = [ipc EXCEPT ![p] = "run"]
                /\ UNCHANGED <<bench_rows, iseen>>
           ELSE /\ ipc' = [ipc EXCEPT ![p] = "get"]
                /\ UNCHANGED <<bench_rows, job_runs, irun, iseen>>
    /\ startFrame

\* lines 185-186: b = s.get(Benchmark, cfg.BenchmarkID)
start_get_benchmark(p) ==
    /\ ipc[p] = "get"
    /\ iseen' = [iseen EXCEPT ![p] = (bench_rows = 0)]
    /\ ipc' = [ipc EXCEPT ![p] = "commit"]
    /\ UNCHANGED <<bench_rows, job_runs, irun, started>>
    /\ startFrame

\* lines 187-208: the Benchmark row is added when the read found none, the
\* JobRun row always.  The primary key of benchmark (models.py 55) refuses a
\* second row: IntegrityError leaves the invocation, nothing is inserted.
start_commit_run(p) ==
    /\ ipc[p] = "commit"
    /\ IF iseen[p] /\ bench_rows > 0
       THEN /\ ipc' = [ipc EXCEPT ![p] = "idle"]
            /\ UNCHANGED <<bench_rows, job_runs, irun>>
       ELSE /\ bench_rows' = 1
            /\ job_runs' = Append(job_runs, JobRun("running"))
            /\ irun' = [irun EXCEPT ![p] = Len(job_runs) + 1]
            /\ ipc' = [ipc EXCEPT ![p] = "run"]
    /\ iseen' = [iseen EXCEPT ![p] = FALSE]
    /\ UNCHANGED started
    /\ startFrame

\* lines 309-367: the run ends completed (329-332) or aborted (315-319,
\* 354-360), or an exception leaves it with the row still running.
run_ends(p) ==
    /\ ipc[p] = "run"
    /\ \/ \E st \in {"completed", "aborted"} :
            job_runs' = [job_runs EXCEPT ![irun[p]] = JobRun(st)]
       \/ job_runs' = job_runs
    /\ ipc' = [ipc EXCEPT ![p] = "idle"]
    /\ irun' = [irun EXCEPT ![p] = 0]
    /\ UNCHANGED <<bench_rows, iseen, started>>
    /\ startFrame

StartInit ==
    /\ ProgramAtRest
    /\ PureAtRest

StartNext ==
    \E p \in Procs :
        \/ start_decide(p)
        \/ start_get_benchmark(p)
        \/ start_commit_run(p)
        \/ run_ends(p)

StartSpec == StartInit /\ [][StartNext]_vars

\* ------------------------------------------------------------------------
\* EvaluationV1.run and the finalisation of the JobRun (pipeline.py 169-303,
\* runner.py 326-332, 366-367).  A bucket is described by its number of
\* samples and whether their durations are known; every row the
\* evaluation adds is kept by table, metric, method and seed.

MaxBuckets == 2
SEED == 42
SmallN == 300
ProxyMin == 5

BucketKinds == {[n |-> n, known |-> k] : n \in {1, ProxyMin, SmallN}, k \in {0, 1}}

MetricSummary(i, m) == [table |-> "metric_summary", bucket |-> i, metric |-> m]

BootstrapResult(i, m, how, sd) ==
    [table |-> "bootstrap_result", bucket |-> i, metric |-> m, method |-> how, seed |-> sd]

\* lines 88-101, 110-114: ValueError on an empty sample
bootstrap_ci(i, m, size) ==
    IF size = 0 THEN [raised |-> TRUE, rows |-> <<>>]
    ELSE [raised |-> FALSE, rows |-> <<BootstrapResult(i, m, "bootstrap_percentile", Some(SEED))>>]

\* lines 251-261: the two latency CIs; `except ValueError: pass` keeps what
\* was added before the error
latency_cis(i, size) ==
    LET p50 == bootstrap_ci(i, "latency_p50_ms", size)
        p95 == bootstrap_ci(i, "latency_p95_ms", size)
    IN  IF p50.raised THEN <<>>
        ELSE IF p95.raised THEN p50.rows
        ELSE p50.rows \o p95.rows

\* lines 264-273, 296-301: the order-statistic rows are built with seed=None
orderstat_ci(i, m, size) ==
    IF size > 0 /\ size < SmallN
    THEN <<BootstrapResult(i, m, "orderstat_normal_approx", None)>>
    ELSE <<>>

\* lines 276-301: only when some duration is known
rtf_rows(i, size) ==
    IF size = 0 THEN <<>>
    ELSE <<MetricSummary(i, "rtf_mean"), MetricSummary(i, "rtf_p95")>>
         \o bootstrap_ci(i, "rtf_mean", size).rows
         \o bootstrap_ci(i, "rtf_p95", size).rows
         \o orderstat_ci(i, "rtf_p95", size)

\* lines 197-301: the rows one bucket adds to the session, in order
bucket_rows(i, b) ==
    LET size == IF b.known = 0 THEN 0 ELSE b.n
    IN  <<MetricSummary(i, "wer"),
          BootstrapResult(i, "wer", "bootstrap_percentile", Some(SEED))>>
        \o (IF b.n >= ProxyMin
            THEN <<BootstrapResult(i, "wer_sentence_proxy", "bootstrap_percentile", Some(SEED))>>
            ELSE <<>>)
        \o <<MetricSummary(i, "latency_p50_ms"), MetricSummary(i, "latency_p95_ms")>>
        \o latency_cis(i, b.n)
        \o orderstat_ci(i, "latency_p50_ms", b.n)
        \o orderstat_ci(i, "latency_p95_ms", b.n)
        \o rtf_rows(i, size)

\* models.py 117: seed is Mapped[int], a NOT NULL column
not_null_violation(rows) ==
    \E k \in 1..Len(rows) : rows[k].table = "bootstrap_result" /\ ~rows[k].seed.present

\* the point metrics the evaluation computes for a bucket
point_metrics(b) ==
    {"wer", "latency_p50_ms", "latency_p95_ms"}
        \cup (IF b.known = 0 THEN {} ELSE {"rtf_mean", "rtf_p95"})

evalFrame ==
    UNCHANGED <<workerVars, limiterVars, jobVars, retryVars, editVars, ciVars, capVars, rtfVars,
                pollVars, startVars>>

\* lines 169-194: the join and the bucketing by (dataset, variant)
EvaluationV1_query ==
    /\ ev_pc = "query"
    /\ ev_buckets' \in SeqsUpTo(BucketKinds, MaxBuckets)
    /\ ev_pc' = "bucket"
    /\ UNCHANGED <<ev_done, ev_session, ev_committed, ev_status, ev_exc>>
    /\ evalFrame

\* lines 197-301: one turn of the loop over the buckets
EvaluationV1_bucket ==
    /\ ev_pc = "bucket"
    /\ ev_done < Len(ev_buckets)
    /\ ev_done' = ev_done + 1
    /\ ev_session' = ev_session \o bucket_rows(ev_done + 1, ev_buckets[ev_done + 1])
    /\ UNCHANGED <<ev_pc, ev_buckets, ev_committed, ev_status, ev_exc>>
    /\ evalFrame

\* line 303: s.commit() flushes every row; a refused row raises
\* IntegrityError out of run(), the session context rolls everything back
\* and post_onboard_evaluation has no handler for it (runner.py 353-367).
EvaluationV1_commit ==
    /\ ev_pc = "bucket"
    /\ ev_done = Len(ev_buckets)
    /\ IF not_null_violation(ev_session)
       THEN /\ ev_exc' = "IntegrityError"
            /\ ev_pc' = "raised"
            /\ ev_committed' = ev_committed
       ELSE /\ ev_exc' = ev_exc
            /\ ev_pc' = "evaluated"
            /\ ev_committed' = ev_session
    /\ ev_session' = <<>>
    /\ UNCHANGED <<ev_buckets, ev_done, ev_status>>
    /\ evalFrame

\* runner.py 329-332
finalize_completed ==
    /\ ev_pc = "evaluated"
    /\ ev_status' = "completed"
    /\ ev_pc' = "done"
    /\ UNCHANGED <<ev_buckets, ev_done, ev_session, ev_committed, ev_exc>>
    /\ evalFrame

EvalInit ==
    /\ ProgramAtRest
    /\ PureAtRest

EvalNext ==
    \/ EvaluationV1_query
    \/ EvaluationV1_bucket
    \/ EvaluationV1_commit
    \/ finalize_completed

EvalSpec == EvalInit /\ [][EvalNext]_vars

\* =================================================================== claims
IsDecideStep == invocations' # invocations
Injective(f) == \A a, b \in DOMAIN f : f[a] = f[b] => a = b
AlreadyPredicted(t) == resume_mode /\ startPreds[<<job_run_id, tasks[t]>>] > 0
AfterRunParallel == {"after_pool", "eval", "finalize", "except_ki", "stop_writer", "join_writer", "returned"}

\* C1: over the first execution and all resumes of a JobRun, at most one
\* provider call that returned a transcript is made per (job_run_id,
\* utterance) -- stated here for task lists without repeated utterances.
C1_ProviderCalledAtMostOnce ==
    Injective(tasks) => \A p \in Pairs : calls[p] <= 1

\* C2: the committed prediction table never holds two rows for the same
\* (job_run_id, utt_pk), whatever the interleaving, the resumes and the
\* repetitions in the task list.
C2_OnePredictionPerUtterance ==
    \A p \in Pairs : predictions[p] <= 1

\* C2 witness: a second write for an already predicted utterance was
\* attempted and rejected by the unique index.
C2_Witness ==
    /\ werr = "integrity"
    /\ \E p \in Pairs : predictions[p] = 1 /\ calls[p] >= 2

\* C3 as stated: on a resume, the task of an utterance that already has a
\* committed Prediction for the resumed job run returns `skipped`.
C3_AlwaysSkipped ==
    \A t \in Tasks : (AlreadyPredicted(t) /\ fut[t] = "finished") => outcome[t] = "skipped"

\* C3 amended: on a resume, the task of an already predicted utterance never
\* waits on the rate limiter, never calls the provider and never submits a
\* Prediction write; it returns `skipped`, or `cancelled` when the cancel
\* event is set at one of its checks, or raises when the idempotency query
\* itself fails.
C3_SkippedUnlessCancelled ==
    \A t \in Tasks : AlreadyPredicted(t) =>
        /\ tpc[t] \notin {"limiter", "call"}
        /\ Pred(t) \notin Range(wq)
        /\ outcome[t] \in {"none", "skipped", "cancelled", "exc_db"}
        /\ (outcome[t] = "cancelled" => cancel)
        /\ (outcome[t] = "exc_db" => faults > 0)

\* C3 witness: a resumed run has skipped an already predicted utterance.
C3_Witness ==
    \E t \in Tasks : AlreadyPredicted(t) /\ outcome[t] = "skipped"

\* C4: when the latest JobRun is `running` or `failed`, the invocation
\* creates no JobRun, reuses that job_run_id, sets it `running` with ended_at
\* and error_text cleared, and calls the provider only for utterances that
\* had no Prediction for it.
C4_ResumeReusesRun ==
    /\ resume_decision("running") = "resume"
    /\ resume_decision("failed") = "resume"
    /\ [][(IsDecideStep /\ LastStatus(jobruns) \in {"running", "failed"}) =>
            /\ resume_mode'
            /\ job_run_id' = Len(jobruns)
            /\ Len(jobruns') = Len(jobruns)
            /\ jobruns'[Len(jobruns)] = NewJobRun
            /\ \A i \in 1..(Len(jobruns) - 1) : jobruns'[i] = jobruns[i]]_vars
    /\ [][(resume_mode /\ ~IsDecideStep) =>
            /\ Len(jobruns') = Len(jobruns)
            /\ job_run_id' = job_run_id]_vars
    /\ [][(resume_mode /\ ~IsDecideStep) =>
            \A p \in Pairs : calls'[p] > calls[p] =>
                (p[1] = job_run_id /\ startPreds[p] = 0)]_vars

\* C4 witness: a resumed run skipped one utterance and executed another.
C4_Witness ==
    /\ resume_mode
    /\ \E t \in Tasks : AlreadyPredicted(t) /\ outcome[t] = "skipped"
    /\ \E t \in Tasks : ~AlreadyPredicted(t) /\ outcome[t] = "ok"

\* C5: after a JobRun ended `aborted`, the next invocation reopens that same
\* JobRun to `running` and creates no new one.
C5_AbortedIsResumed ==
    [][(IsDecideStep /\ LastStatus(jobruns) = "aborted") =>
            /\ resume_mode'
            /\ job_run_id' = Len(jobruns)
            /\ jobruns'[Len(jobruns)].status = "running"]_vars

\* C6: when the latest JobRun is `completed`, the invocation returns
\* already_completed at once: no provider call, no writer, and no row of any
\* table added or changed.
C6_CompletedShortCircuits ==
    /\ resume_decision("completed") = "already_completed"
    /\ [][(IsDecideStep /\ LastStatus(jobruns) = "completed") =>
            /\ result' = "already_completed"
            /\ pc' = "returned"
            /\ wstate' = "off"
            /\ calls' = calls
            /\ UNCHANGED dbVars]_vars
    /\ [][(result = "already_completed" /\ ~IsDecideStep) => UNCHANGED <<dbVars, calls>>]_vars

\* C6 witness: an invocation has returned already_completed.
C6_Witness ==
    result = "already_completed" /\ pc = "returned" /\ invocations >= 2

\* C7: when the cancel event is raised while tasks are executing, the run
\* ends with JobRun status `aborted` and the evaluation is not run (stated
\* for runs in which no status update itself failed).
C7_CancelledEndsAborted ==
    (pc = "returned" /\ cancelInPool /\ exc # "db_status") =>
        /\ jobruns[job_run_id].status = "aborted"
        /\ ~evalRan

\* C8 as stated: once run_parallel has observed the cancel event, no task
\* that has not started begins executing.
C8_NoStartAfterObserved ==
    [][(observed /\ ~IsDecideStep) =>
        \A t \in Tasks : fut[t] = "pending" => fut'[t] \in {"pending", "cancelled"}]_vars

\* C8 amended: once run_parallel has observed the cancel event, a task that
\* still starts returns `cancelled` at its first check, with no write
\* submitted and no provider call; when run_parallel has returned every
\* task is finished or cancelled, none is left pending or running.
C8_LateStartOnlyCancels ==
    /\ [][(observed /\ ~IsDecideStep) =>
            \A t \in Tasks : fut[t] = "pending" =>
                \/ fut'[t] \in {"pending", "cancelled"}
                \/ /\ fut'[t] = "finished"
                   /\ outcome'[t] = "cancelled"
                   /\ wq' = wq
                   /\ calls' = calls]_vars
    /\ [](\A t \in lateStart : fut[t] = "finished" /\ outcome[t] = "cancelled")
    /\ []((observed /\ pc \in AfterRunParallel) =>
            \A t \in Tasks : fut[t] \in {"finished", "cancelled"})

\* C8 witness: a task was taken by a worker after the observation, and
\* run_parallel has returned.
C8_Witness ==
    /\ observed
    /\ lateStart # {}
    /\ pc \in AfterRunParallel

\* C9: when an exception (interrupt included) escapes the execute/evaluate
\* flow, the JobRun is marked `aborted` and the failure reaches the caller
\* (stated for exceptions other than a failed status update, so that the
\* marking itself is possible).
C9_ExceptionMarksAborted ==
    (pc = "returned" /\ exc \in {"ki", "db_task", "db_eval"}) =>
        /\ jobruns[job_run_id].status = "aborted"
        /\ result = "raised"

\* C10: when an unexpected exception occurs outside task isolation (the
\* idempotency query or the evaluation fails), the JobRun ends `failed` with
\* the error captured in error_text.
C10_FailureMarksFailed ==
    (pc = "returned" /\ exc \in {"db_task", "db_eval"}) =>
        /\ jobruns[job_run_id].status = "failed"
        /\ jobruns[job_run_id].error_text # ""

TerminalOutcomes == {"ok", "skipped", "error", "cancelled"}
InCall == {t \in Tasks : tpc[t] = "call"}
IsPrefix(a, b) == Len(a) <= Len(b) /\ \A i \in 1..Len(a) : a[i] = b[i]
IsWriterStep == wstate' # wstate

\* C11: the evaluation pipeline starts only when every task handed to the
\* executor has finished with a terminal outcome; no task is pending or
\* executing while eval_pipeline.run is about to run or runs.
C11_EvalAfterAllTasks ==
    /\ [](pc = "eval" =>
            \A t \in Tasks :
                fut[t] = "finished" /\ tpc[t] = "-" /\ outcome[t] \in TerminalOutcomes)
    /\ [][(evalRan' /\ ~evalRan) =>
            /\ Running = {} /\ Pending = {}
            /\ \A t \in Tasks : outcome[t] \in TerminalOutcomes]_vars

\* C11 witness: the evaluation is about to start after two tasks ran
\* concurrently, one transcribed and one isolated as `error`.
C11_Witness ==
    /\ pc = "eval"
    /\ concurrency = 2
    /\ \E t \in Tasks : outcome[t] = "ok"
    /\ \E t \in Tasks : outcome[t] = "error"

C13_AtMostConcurrencyExecuting ==
    /\ Cardinality(Running) <= concurrency
    /\ Cardinality(InCall) <= concurrency

\* C13 witness: with a pool of one worker, a task is inside the provider call
\* while another submitted task is kept waiting.
C13_Witness ==
    /\ concurrency = 1
    /\ Cardinality(InCall) = 1
    /\ Pending # {}

\* C16: the writer runs the submitted closures one at a time in submission
\* order: what it has run is always a prefix of what was submitted, and only
\* a step of the writer thread runs a closure or touches the session and the
\* utterance / prediction / latency rows.
C16_SingleWriterFifo ==
    /\ [](IsPrefix(wlog, subm))
    /\ [][(~IsDecideStep /\ (wlog' # wlog \/ sess' # sess
                \/ <<utterances, predictions, latency>>' # <<utterances, predictions, latency>>))
            => IsWriterStep]_vars

\* C16 witness: two tasks running concurrently submitted their closures, and
\* the writer has run all four, the two upserts first.
C16_Witness ==
    /\ concurrency = 2
    /\ Len(wlog) = 4
    /\ wlog = subm
    /\ wlog[1].kind = "upsert" /\ wlog[2].kind = "upsert"
    /\ wlog[1].t # wlog[2].t

\* C17: when a closure of a writer batch raises, the error reaches the owner
\* of the WriterThread and the run fails (stated for runs that were not
\* cancelled and in which nothing else raised).
C17_WriterErrorFailsRun ==
    (pc = "returned" /\ werr # "none" /\ exc = "none" /\ ~cancel) => result = "raised"

\* C14: any two consecutive grants of RateLimiter.wait are at least
\* min_interval apart, whatever the number of callers and their arrival
\* times; hence N grants span at least (N - 1) * min_interval.
C14_GrantsSpaced ==
    /\ \A i \in 1..(Len(grants) - 1) : grants[i + 1] - grants[i] >= MinIntervalTicks
    /\ Len(grants) >= 1 =>
        grants[Len(grants)] - grants[1] >= (Len(grants) - 1) * MinIntervalTicks

\* C14 witness: three callers entered wait() before the first grant and the
\* third has been granted.
C14_Witness ==
    /\ Len(grants) = 3
    /\ grants[1] >= 1
    /\ \A c \in Callers : lpc[c] = "granted"

\* C15 as stated: a caller that was sleeping in or queued on wait() when the
\* cancel event was set is never granted.
C15_WaitersNeverGranted ==
    \A c \in waitingAtCancel : lpc[c] # "granted"

\* C15 amended: once the cancel event is set no caller begins a sleep slice;
\* a caller with interval left at its next test raises KeyboardInterrupt, and
\* a caller is granted after the event only when its interval has run out.
C15_NoSliceAfterCancel ==
    /\ [][cancel => \A c \in Callers :
            /\ (lpc'[c] = "sleeping" => lpc[c] = "sleeping")
            /\ ((lpc[c] = "loop" /\ lpc'[c] # "loop") =>
                    IF remaining[c] > 0 THEN lpc'[c] = "interrupted" ELSE lpc'[c] = "granted")
            /\ (lpc'[c] = "interrupted" => lpc[c] \in {"loop", "interrupted"})]_vars
    /\ [](\A c \in Callers : lpc[c] = "interrupted" => cancel)

\* C15 witness: the event was set while one caller slept and another was
\* queued on the lock, and both have raised KeyboardInterrupt.
C15_Witness ==
    /\ cancel
    /\ \E c, d \in waitingAtCancel :
        /\ c # d
        /\ lpc[c] = "interrupted" /\ wake[c] > 0
        /\ lpc[d] = "interrupted" /\ wake[d] = 0

ProcessingMarked == Len(updates) >= 1 /\ updates[1].status = "processing" /\ updates[1].ok
TerminalUpdates == {i \in 1..Len(updates) : updates[i].status \in {"done", "failed"}}

\* C18: the handler is invoked only after the update to `processing`, sent
\* with attempts = fetched attempts + 1, has succeeded; when that update
\* fails, the handler is not invoked and no `done` or `failed` update is sent.
C18_HandlerAfterProcessing ==
    /\ [][handlerCalls' > handlerCalls => ProcessingMarked]_vars
    /\ [](Len(updates) >= 1 =>
            /\ updates[1].status = "processing"
            /\ updates[1].attempts = attempts_of(job) + 1)
    /\ []((Len(updates) >= 1 /\ ~updates[1].ok) =>
            /\ handlerCalls = 0
            /\ TerminalUpdates = {}
            /\ jpc = "returned"
            /\ ret = "False")

\* C18 witness: a job fetched with attempts = 1 could not be marked
\* processing and handle_job has returned.
C18_Witness ==
    /\ jpc = "returned"
    /\ job.job_type = "post_onboard_eval"
    /\ attempts_of(job) = 1
    /\ Len(updates) = 1
    /\ ~updates[1].ok

\* C19 as stated: once handle_job is over for a job whose `processing` update
\* succeeded, exactly one terminal update was sent.
C19_ExactlyOneTerminalUpdate ==
    (jpc \in {"returned", "escaped"} /\ ProcessingMarked) => Cardinality(TerminalUpdates) = 1

\* C19 amended: when handle_job returns for a job whose `processing` update
\* succeeded, exactly one terminal update was sent: `done` with the handler's
\* result as payload when the handler returned, `failed` with the error text
\* when it raised an Exception or no handler is registered; a failed `done`
\* update is not followed by `failed`.  When a KeyboardInterrupt or
\* SystemExit leaves the handler, no terminal update is sent.
C19_OneTerminalUpdateUnlessInterrupted ==
    /\ (jpc = "returned" /\ ProcessingMarked) =>
        /\ Len(updates) = 2
        /\ IF handlerOutcome \in HandlerResults
           THEN /\ updates[2].status = "done"
                /\ updates[2].payload = handlerOutcome
                /\ ret = "True"
           ELSE /\ handlerOutcome \in {"raised", "unsupported"}
                /\ updates[2].status = "failed"
                /\ updates[2].last_error = handlerOutcome
                /\ ret = "False"
    /\ Cardinality(TerminalUpdates) <= 1
    /\ jpc = "escaped" => (handlerOutcome = "interrupted" /\ TerminalUpdates = {})

\* C19 witness: the handler returned, the `done` update was sent and failed
\* in transport, and handle_job has returned.
C19_Witness ==
    /\ jpc = "returned"
    /\ ProcessingMarked
    /\ handlerOutcome \in HandlerResults
    /\ Len(updates) = 2
    /\ updates[2].status = "done"
    /\ ~updates[2].ok

\* C20: _post_with_retries makes at most max_retries attempts and then ends;
\* when every attempt yielded a transient status or a timeout / connection
\* error, it raises the error of the last attempt.
C20_RaisesLastAttemptError ==
    /\ attemptsMade <= max_retries
    /\ (rpc = "done" /\ onlyTransient) =>
        /\ rresult = ErrorOf(resp)
        /\ attemptsMade = max_retries

\* C21: a response with a non-transient error status (4xx other than 429), on
\* whichever attempt it arrives, ends _post_with_retries at once with an
\* HTTPError: that attempt starts no sleep, and no attempt follows the end of
\* the method.
C21_ClientErrorEndsAtOnce ==
    [][/\ (attemptsMade' # attemptsMade /\ resp'.kind \in ClientErrors) =>
            /\ rpc' = "done"
            /\ rresult' = "HTTPError"
            /\ wait' = wait
            /\ attempt' = attempt
       /\ rpc = "done" => (rpc' = "done" /\ attemptsMade' = attemptsMade)]_vars

\* a client error answers the third attempt, after two backoff sleeps
C21_Witness ==
    /\ provider = "openai"
    /\ rpc = "done"
    /\ resp.kind \in ClientErrors
    /\ attemptsMade = 3
    /\ attempt = 3
    /\ rresult = "HTTPError"

\* C30: every wait between two attempts of _post_with_retries is a valid
\* non-negative duration of at most max_wait: time.sleep never rejects its
\* argument, whether it comes from Retry-After or from the backoff.
C30_EveryWaitValid ==
    /\ rresult # "ValueError"
    /\ wait >= 0
    /\ wait <= max_wait

\* C28: results are persisted idempotently: after any sequence of runs and
\* resumes of a job run there is at most one MetricSummary row per
\* (job_run_id, dataset, variant, metric), i.e. at most one row set of the
\* evaluation per job run.
C28_OneSummaryPerKey == \A j \in JobRunIds : metrics[j] <= 1

\* C29: a task is past the wait for its ids (at the limiter or at the provider
\* call) only when its utterance row is committed.
C29_ProceedsOnlyAfterCommit ==
    \A t \in Tasks : tpc[t] \in {"limiter", "call"} => tasks[t] \in utterances

\* the word-level minimum edit distance, by its recurrence
RECURSIVE Levenshtein(_, _)
Levenshtein(a, b) ==
    IF a = <<>> THEN Len(b)
    ELSE IF b = <<>> THEN Len(a)
    ELSE IF Head(a) = Head(b) THEN Levenshtein(Tail(a), Tail(b))
    ELSE 1 + Min2(Levenshtein(Tail(a), Tail(b)),
                  Min2(Levenshtein(Tail(a), b), Levenshtein(a, Tail(b))))

FracLeq(p, q) == p.num * q.den <= q.num * p.den

\* C22: for all word sequences ref and hyp, empty ones included, the counts
\* (S, D, I) of _edit_counts add up to the word-level Levenshtein distance of
\* ref and hyp; ref "a b c" and hyp "a x c" give (1, 0, 0).
C22_CountsAreLevenshtein ==
    /\ epc # "input" =>
        \A k \in 1..Len(bucket) :
            counts[k][1] + counts[k][2] + counts[k][3] = Levenshtein(bucket[k].ref, bucket[k].hyp)
    /\ edit_counts(<<"a", "b", "c">>, <<"a", "x", "c">>) = <<1, 0, 0>>

\* the bucket of the one utterance "a b c" heard as "a x c" has been scored
C22_Witness ==
    /\ epc = "scored"
    /\ bucket = <<Utt(<<"a", "b", "c">>, <<"a", "x", "c">>)>>
    /\ counts = <<<<1, 0, 0>>>>

\* C23 as stated: a bucket whose every hypothesis equals its reference has WER
\* 0, and replacing a hypothesis word that _edit_counts aligned as a match by a
\* different word never lowers the bucket's WER.
C23_WerMonotone ==
    /\ (epc = "scored" /\ \A k \in 1..Len(bucket) : bucket[k].hyp = bucket[k].ref) =>
        wer.num = 0
    /\ (epc = "replaced" /\ repl.matched) => FracLeq(wer_before, wer)

\* C23, amended: a bucket whose every hypothesis equals its reference has WER
\* 0, and replacing a matched hypothesis word by a word that does not occur in
\* that utterance's reference never lowers the bucket's WER.
C23_WerMonotoneForForeignWords ==
    /\ (epc = "scored" /\ \A k \in 1..Len(bucket) : bucket[k].hyp = bucket[k].ref) =>
        wer.num = 0
    /\ (epc = "replaced" /\ repl.matched /\ ~repl.in_ref) => FracLeq(wer_before, wer)

\* in a bucket of two utterances a matched word was replaced by a word foreign
\* to the reference, and the WER rose from 0
C23_Witness ==
    /\ epc = "replaced"
    /\ Len(bucket) = 2
    /\ repl.matched
    /\ ~repl.in_ref
    /\ wer_before.num = 0
    /\ wer.num > 0
    /\ Len(bucket[repl.k].ref) = 2

Candidates == {i \in 1..Len(ci_rows) : ci_rows[i].metric = ci_metric}

\* C24: among the rows of the metric, job_runner._choose_ci returns a
\* bootstrap_percentile row whenever one exists, otherwise an
\* orderstat_normal_approx row, and among the rows of the returned method one
\* with the highest iteration count (so a bootstrap_percentile row of 1000
\* iterations wins over any order-statistic row); without a row of the metric
\* it returns None.
C24_PrefersBootstrapThenIterations ==
    worker_ci.called =>
        IF Candidates = {} THEN ~worker_ci.found
        ELSE /\ worker_ci.found
             /\ worker_ci.id \in Candidates
             /\ LET best == ci_rows[worker_ci.id]
                IN /\ worker_ci.method = best.method
                   /\ worker_ci.ci_low = best.ci_low
                   /\ worker_ci.ci_high = best.ci_high
                   /\ best.method =
                        IF \E i \in Candidates : ci_rows[i].method = "bootstrap_percentile"
                        THEN "bootstrap_percentile" ELSE "orderstat_normal_approx"
                   /\ \A i \in Candidates :
                        ci_rows[i].method = best.method => ci_rows[i].iterations <= best.iterations

\* an order-statistic row, a bootstrap row of 500 iterations and one of 1000
\* iterations, stored in that order: the last one is returned
C24_Witness ==
    /\ worker_ci.called
    /\ Len(ci_rows) = 3
    /\ Candidates = {1, 2, 3}
    /\ ci_rows[1].method = "orderstat_normal_approx"
    /\ ci_rows[2].method = "bootstrap_percentile" /\ ci_rows[2].iterations = 500
    /\ ci_rows[3].method = "bootstrap_percentile" /\ ci_rows[3].iterations = 1000
    /\ worker_ci.id = 3

\* the rows are such as EvaluationV1.run writes them (pipeline.py 229-301):
\* 1000 iterations for a bootstrap row, 0 for an order-statistic row
WrittenByEvaluation ==
    \A i \in 1..Len(ci_rows) :
        ci_rows[i].iterations = IF ci_rows[i].method = "bootstrap_percentile" THEN 1000 ELSE 0

\* C25: for every set of rows the evaluation can have written, the worker's
\* and the report's _choose_ci return the same (ci_low, ci_high, method),
\* whatever order each reads the rows in.
C25_SameSelection ==
    (WrittenByEvaluation /\ worker_ci.called /\ report_ci.called) =>
        /\ worker_ci.found = report_ci.found
        /\ worker_ci.ci_low = report_ci.ci_low
        /\ worker_ci.ci_high = report_ci.ci_high
        /\ worker_ci.method = report_ci.method

InGroup(task_seq, key) == SelectSeq(task_seq, LAMBDA t : t.dataset_key = key)

\* C26: for max_per_subset = k > 0, _cap_tasks returns for each (dataset,
\* variant) group exactly the first min(k, group size) tasks of the group, in
\* their original order, when max_utterances does not cut further; with or
\* without max_utterances the result holds only tasks of the input, each at
\* most once, so never more tasks than the input; three groups of five with
\* k = 2 give two tasks per group.
C26_FirstKPerGroup ==
    (cap_pc = "done" /\ max_per_subset.present /\ max_per_subset.v > 0) =>
        /\ ~(max_utterances.present /\ max_utterances.v > 0) =>
            \A key \in DatasetKeys :
                InGroup(capped, key) =
                    SubSeq(InGroup(task_list, key), 1,
                           Min2(max_per_subset.v, Len(InGroup(task_list, key))))
        /\ \A i \in 1..Len(capped) : \E j \in 1..Len(task_list) : task_list[j] = capped[i]
        /\ \A i, j \in 1..Len(capped) : capped[i] = capped[j] => i = j
        /\ Len(capped) <= Len(task_list)
        /\ \A key \in DatasetKeys :
            Len(InGroup(cap_tasks(ThreeGroupsOfFive, None, Some(2)), key)) = 2

\* three groups of five capped at two per group: tasks 1, 2, 6, 7, 11, 12
C26_Witness ==
    /\ cap_pc = "done"
    /\ task_list = ThreeGroupsOfFive
    /\ max_per_subset = Some(2)
    /\ max_utterances = None
    /\ [i \in 1..Len(capped) |-> capped[i].id] = <<1, 2, 6, 7, 11, 12>>

\* the utterances whose duration is known and positive
KnownDuration == {i \in 1..Len(rtf_utts) : rtf_utts[i].duration_s.kind = "number" /\ rtf_utts[i].duration_s.v > 0}
FracEq(p, q) == p.num * q.den = q.num * p.den
TrueRtf(i) == Frac(rtf_utts[i].elapsed_s, rtf_utts[i].duration_s.v)

RECURSIVE SumOver(_)
SumOver(S) ==
    IF S = {} THEN Frac(0, 1)
    ELSE LET i == CHOOSE i \in S : TRUE IN FracAdd(TrueRtf(i), SumOver(S \ {i}))

\* C27: every LatencySample written has a non-null rtf, elapsed / duration when
\* the duration is known and positive and otherwise 0.0 with the flag
\* rtf_missing_duration; the bucket's rtf_mean and rtf_p95 are taken over the
\* samples of known duration only (rtf_mean is their mean, rtf_p95 lies between
\* their least and greatest rtf), and are not written when there is none.
C27_RtfNeverNullMissingExcluded ==
    /\ \A i \in 1..Len(lat_rows) :
        /\ ~lat_rows[i].rtf.null
        /\ IF i \in KnownDuration
           THEN /\ FracEq(lat_rows[i].rtf.val, TrueRtf(i))
                /\ "rtf_missing_duration" \notin lat_rows[i].meta_json
           ELSE /\ lat_rows[i].rtf.val.num = 0
                /\ "rtf_missing_duration" \in lat_rows[i].meta_json
    /\ rtf_pc = "evaluated" =>
        /\ rtf_summary.written = (KnownDuration # {})
        /\ {rtf_summary.used[n] : n \in 1..Len(rtf_summary.used)} = KnownDuration
        /\ rtf_summary.written =>
            /\ FracEq(rtf_summary.rtf_mean,
                      LET t == SumOver(KnownDuration)
                      IN Frac(t.num, t.den * Cardinality(KnownDuration)))
            /\ \E i \in KnownDuration : ~FracLess(rtf_summary.rtf_p95, TrueRtf(i))
            /\ \E i \in KnownDuration : ~FracLess(TrueRtf(i), rtf_summary.rtf_p95)

\* three samples, the second without a duration: it is flagged with rtf 0.0
\* and the aggregates are taken over the other two
C27_Witness ==
    /\ rtf_pc = "evaluated"
    /\ Len(rtf_utts) = 3
    /\ KnownDuration = {1, 3}
    /\ rtf_utts[2].duration_s.kind = "None"
    /\ "rtf_missing_duration" \in lat_rows[2].meta_json
    /\ rtf_summary.written
    /\ rtf_summary.used = <<1, 3>>
    /\ rtf_summary.rtf_mean.num > 0

\* C34: a job whose benchmark run did not succeed is never reported to the
\* queue service as `done`: every `done` update carries a result whose run
\* status is completed or already_completed
C34_DoneOnlyWhenRunSucceeded ==
    \A i \in 1..Len(updates) :
        updates[i].status = "done" => updates[i].payload \in {"completed", "already_completed"}

\* C35: when the evaluation pipeline runs in a run that is not cancelled, the
\* Prediction of every task that returned `ok` is already committed
C35_EvalReadsEveryOkPrediction ==
    [][(pc = "eval" /\ pc' = "finalize" /\ ~cancel)
        => \A t \in Tasks : outcome[t] = "ok" => predictions[<<job_run_id, tasks[t]>>] > 0]_vars

\* C36: when stop() returns after a writer that never failed, every closure
\* submitted before it has been run by the writer
C36_StopDropsNoWrite ==
    (pc = "returned" /\ result # "already_completed" /\ werr = "none") => wlog = subm

\* C40: a JobRun has ended_at = null exactly when its status is `running`
C40_EndedIffNotRunning ==
    \A i \in 1..Len(jobruns) : (~jobruns[i].ended) <=> (jobruns[i].status = "running")

\* a run that was reopened by a resume and then completed, beside an aborted one
C40_Witness ==
    /\ resume_mode
    /\ pc = "returned"
    /\ jobruns[job_run_id].status = "completed"
    /\ jobruns[job_run_id].ended

\* C37: a failure of the writer never hangs the run: once the writer thread
\* has stopped because a batch raised, post_onboard_evaluation eventually
\* returns or raises, also when the cancel signal is never set
C37_WriterFailureNeverHangs ==
    (wstate = "dead") ~> (pc = "returned")

\* the distance of the first i reference words and the first j hypothesis words
PrefixDistance(r, h, i, j) == Levenshtein(SubSeq(r, 1, i), SubSeq(h, 1, j))

\* the moves out of (i, j) that lie on some minimum-cost alignment
OptimalMoves(r, h, i, j) ==
    {mv \in {"diag", "up", "left"} :
        \/ /\ mv = "diag" /\ i > 0 /\ j > 0
           /\ PrefixDistance(r, h, i - 1, j - 1) + (IF r[i] = h[j] THEN 0 ELSE 1)
                = PrefixDistance(r, h, i, j)
        \/ /\ mv = "up" /\ i > 0
           /\ PrefixDistance(r, h, i - 1, j) + 1 = PrefixDistance(r, h, i, j)
        \/ /\ mv = "left" /\ j > 0
           /\ PrefixDistance(r, h, i, j - 1) + 1 = PrefixDistance(r, h, i, j)}

\* (S, D, I) after one move out of (i, j)
Moved(r, h, i, j, mv, sdi) ==
    IF mv = "diag" THEN (IF r[i] = h[j] THEN sdi ELSE [sdi EXCEPT ![1] = @ + 1])
    ELSE IF mv = "up" THEN [sdi EXCEPT ![2] = @ + 1]
    ELSE [sdi EXCEPT ![3] = @ + 1]

\* (S, D, I) of the minimum-cost alignment that takes, at every step back from
\* (i, j), the diagonal move if it is optimal, else the up move if it is, else
\* the left move
RECURSIVE PreferredCounts(_, _, _, _)
PreferredCounts(r, h, i, j) ==
    IF i = 0 /\ j = 0 THEN <<0, 0, 0>>
    ELSE LET moves == OptimalMoves(r, h, i, j)
             mv == IF "diag" \in moves THEN "diag"
                   ELSE IF "up" \in moves THEN "up" ELSE "left"
         IN Moved(r, h, i, j, mv,
                  PreferredCounts(r, h, IF mv = "left" THEN i ELSE i - 1,
                                        IF mv = "up" THEN j ELSE j - 1))

\* the (S, D, I) of all minimum-cost alignments of the first i and j words
RECURSIVE MinCostCounts(_, _, _, _)
MinCostCounts(r, h, i, j) ==
    IF i = 0 /\ j = 0 THEN {<<0, 0, 0>>}
    ELSE UNION {{Moved(r, h, i, j, mv, c) :
                    c \in MinCostCounts(r, h, IF mv = "left" THEN i ELSE i - 1,
                                              IF mv = "up" THEN j ELSE j - 1)} :
                mv \in OptimalMoves(r, h, i, j)}

\* C33: the (S, D, I) returned by _edit_counts are those of the minimum-cost
\* alignment obtained by preferring, at every backtrack step, the diagonal move
\* over up and left, and up over left
C33_DiagonalThenUpThenLeft ==
    epc # "input" =>
        \A k \in 1..Len(bucket) :
            counts[k] = PreferredCounts(bucket[k].ref, bucket[k].hyp,
                                        Len(bucket[k].ref), Len(bucket[k].hyp))

\* a scored utterance whose minimum-cost alignments differ in their counts:
\* two substitutions, or a deletion and an insertion around a match
C33_Witness ==
    /\ epc = "scored"
    /\ \E k \in 1..Len(bucket) :
        LET u == bucket[k]
            all == MinCostCounts(u.ref, u.hyp, Len(u.ref), Len(u.hyp))
        IN /\ <<2, 0, 0>> \in all
           /\ <<0, 1, 1>> \in all
           /\ counts[k] = <<2, 0, 0>>

\* C39: when the job payload carries max_per_subset = k > 0, the run started by
\* the job handler executes at most k tasks per (dataset, variant) subset, the
\* same tasks as the command-line run with --max-per-subset k
C39_PayloadCapLimitsTheRun ==
    (cap_pc = "done" /\ cap_entry = "job" /\ requested.present /\ requested.v > 0) =>
        /\ \A key \in DatasetKeys : Len(InGroup(capped, key)) <= requested.v
        /\ capped = cap_tasks(task_list, None, requested)

\* C31: run_forever ends only on an external interrupt: an exception raised in
\* a poll cycle, the first included, never ends the loop, and a cycle that
\* attempted no job is followed by an idle sleep before the next fetch
C31_RunsUntilInterrupted ==
    /\ fpc # "crashed"
    /\ \A i \in 1..Len(cycle_log) :
        (cycle_log[i].outcome # "interrupted" /\ cycle_log[i].handled = 0) => cycle_log[i].slept

\* C38: however the invocations of post_onboard_evaluation for one BenchmarkID
\* interleave, at most one JobRun of the benchmark has status running and at
\* most one Benchmark row exists.
C38_AtMostOneRunning ==
    /\ Cardinality({i \in 1..Len(job_runs) : job_runs[i].status = "running"}) <= 1
    /\ bench_rows <= 1

\* C32: an error in one metric or confidence interval of a bucket skips only
\* that one: once the evaluation has ended, every point metric of every
\* bucket is written and the JobRun is completed.
C32_MetricErrorSkipsOnlyThatMetric ==
    ev_pc \in {"raised", "done"} =>
        /\ ev_status = "completed"
        /\ \A i \in 1..Len(ev_buckets) : \A m \in point_metrics(ev_buckets[i]) :
              \E k \in 1..Len(ev_committed) : ev_committed[k] = MetricSummary(i, m)

====
